---- MODULE Spec2Model ----
(***************************************************************************)
(* A model of s1denoise.sentinel1image (Sentinel-1 GRD thermal noise       *)
(* removal): the construction of a Sentinel1Image from a product name,     *)
(* the retrieval of the auxiliary calibration archive, the lookup of the   *)
(* denoising coefficients, the burst-length computation and the            *)
(* full-resolution NESZ / sigma0 pipeline on small rasters.                *)
(*                                                                         *)
(* Numbers: a float raster value is a one-element tuple <<v>> holding an   *)
(* integer, NaN is the empty tuple.  IPF versions are integers in          *)
(* hundredths (2.72 is 272).  A datetime is the pair <<yyyymmdd, hhmmss>>. *)
(***************************************************************************)
EXTENDS Integers, Sequences, FiniteSets, TLC

VARIABLES
    filename,   \* the product name given to the last constructor call
    fs,         \* the auxiliary-calibration directory on disk
    s1,         \* the Sentinel1Image object, or NoObj
    err,        \* the exception the last operation raised, or "none"
    printed,    \* the messages the constructor printed
    meta,       \* parsed metadata of the product, the DN raster, the JSON table
    op,         \* the last operation called and its arguments
    ret,        \* what the last operation returned
    calls       \* the methods the last operation called on the way

vars == <<filename, fs, s1, err, printed, meta, op, ret, calls>>

NoObj == [kind |-> "none"]
NoMeta == [kind |-> "none"]
NoOp == [name |-> "none"]
NoRet == [kind |-> "none"]

(***************************************************************************)
(* Product names.  os.path.basename(filename) is                           *)
(*   PPP_MM_TTTR_LSPP_yyyymmddThhmmss_...                                  *)
(* and is kept as its '_'-separated fields.                                *)
(***************************************************************************)
Platforms == {"S1A", "S1B", "S1C"}

ModeTypes ==
    { <<"IW", "GRDH", "1SDH">>, <<"IW", "GRDH", "1SDV">>,
      <<"EW", "GRDM", "1SDH">>, <<"EW", "GRDM", "1SDV">>,
      <<"IW", "SLC_", "1SDV">>, <<"EW", "GRDH", "1SDH">>,
      <<"IW", "GRDH", "1SSH">> }

\* 2017-01-16 13:42:33, 13:42:34, 2017-01-20 00:00:00, 2016-12-31 23:59:59
SensingTimes ==
    { <<20170116, 134233>>, <<20170116, 134234>>,
      <<20170120, 0>>, <<20161231, 235959>> }

FileNames ==
    [platform : Platforms, modeType : ModeTypes, start : SensingTimes]

\* IPF versions of the manifest, in hundredths
IPFVersions == {240, 243, 252, 253, 272, 280, 291, 310, 320}

\* basename[4:16]
NameSlice4to16(fn) == fn.modeType

\* the list of the constructor's membership test
SupportedModeTypes ==
    { <<"IW", "GRDH", "1SDH">>, <<"IW", "GRDH", "1SDV">>,
      <<"EW", "GRDM", "1SDH">>, <<"EW", "GRDM", "1SDV">> }

\* {'1SDH': 'HV', '1SDV': 'VH'}[pol_mode]
CrossPolOf(polMode) == IF polMode = "1SDH" THEN "HV" ELSE "VH"

\* {'1SDH': ['HH', 'HV'], '1SDV': ['VH', 'VV']}[pol_mode]
PolsOf(polMode) == IF polMode = "1SDH" THEN {"HH", "HV"} ELSE {"VH", "VV"}

\* {'IW':3, 'EW':5}[obsMode]
NumSwaths(obsMode) == IF obsMode = "IW" THEN 3 ELSE 5

(***************************************************************************)
(* The auxiliary calibration archive.  fs.dir holds the platforms whose    *)
(* extracted archive directory <aux_data_dir>/<PLATFORM>_AUX_CAL_20241128  *)
(* exists, fs.file those in whose directory the product's                  *)
(* <platform>-aux-cal.xml exists.  The network answers a download with one *)
(* of NetOutcomes.                                                         *)
(***************************************************************************)
NetOutcomes ==
    { "ok_with_file",       \* archive downloaded, extracted, holds the file
      "ok_without_file",    \* archive downloaded, extracted, lacks the file
      "conn_error",         \* requests.get raises
      "bad_zip",            \* what was downloaded is no zip archive
      "extract_interrupted" \* extractall created the directory and stopped
    }

FsStates == { f \in [dir : SUBSET Platforms, file : SUBSET Platforms] :
                  f.file \subseteq f.dir }

\* the archive fetched again when the directory lacks the file
download_aux_calibration_retry(platform, net, f) ==
    IF platform \in f.file
    THEN [err |-> "none", fs |-> f, downloaded |-> FALSE]
    ELSE IF net = "ok_with_file"
    THEN [err |-> "none",
          fs |-> [dir |-> f.dir \cup {platform}, file |-> f.file \cup {platform}],
          downloaded |-> TRUE]
    ELSE [err |-> "FileNotFoundError",
          fs |-> [f EXCEPT !.dir = @ \cup {platform}],
          downloaded |-> TRUE]

download_aux_calibration(platform, net, f) ==
    IF platform \in f.dir
    THEN IF platform \in f.file
         THEN [err |-> "none", fs |-> f, downloaded |-> FALSE]
         ELSE [err |-> "FileNotFoundError", fs |-> f, downloaded |-> FALSE]
    ELSE CASE net = "conn_error" ->
                [err |-> "ConnectionError", fs |-> f, downloaded |-> TRUE]
           [] net = "bad_zip" ->
                [err |-> "BadZipFile", fs |-> f, downloaded |-> TRUE]
           [] net = "extract_interrupted" ->
                [err |-> "OSError",
                 fs |-> [f EXCEPT !.dir = @ \cup {platform}],
                 downloaded |-> TRUE]
           [] net = "ok_without_file" ->
                [err |-> "FileNotFoundError",
                 fs |-> [f EXCEPT !.dir = @ \cup {platform}],
                 downloaded |-> TRUE]
           [] OTHER ->
                [err |-> "none",
                 fs |-> [dir |-> f.dir \cup {platform},
                         file |-> f.file \cup {platform}],
                 downloaded |-> TRUE]

\* Sentinel1ImageXml.__init__ of a well-formed product: platform is
\* basename[:3], then the auxiliary calibration file is obtained.
Sentinel1ImageXml(fn, net, f) ==
    LET d == download_aux_calibration(fn.platform, net, f)
    IN  [err |-> d.err, fs |-> d.fs, platform |-> fn.platform,
         downloaded |-> d.downloaded]

\* the two messages of the constructor about the IPF version
IPFMessages(ipf) ==
    IF ipf < 243 THEN {"ERROR: IPF lower than 2.43, only TG-based denoising"}
    ELSE IF ipf < 253 THEN {"WARNING: IPF lower than 2.53"}
    ELSE {}

\* the attributes __init__ sets on the object
MakeObj(fn, platform, ipf) ==
    [kind |-> "Sentinel1Image",
     platform |-> platform,
     obsMode |-> fn.modeType[1],
     crosspol |-> CrossPolOf(fn.modeType[3]),
     pols |-> PolsOf(fn.modeType[3]),
     nSwaths |-> NumSwaths(fn.modeType[1]),
     IPFversion |-> ipf]

\* Sentinel1Image.__init__
Construct(fn, ipf, net, f) ==
    IF NameSlice4to16(fn) \notin SupportedModeTypes
    THEN [obj |-> NoObj, err |-> "ValueError: unsupported product", fs |-> f,
          printed |-> {}]
    ELSE LET x == Sentinel1ImageXml(fn, net, f)
         IN  IF x.err # "none"
             THEN [obj |-> NoObj, err |-> x.err, fs |-> x.fs, printed |-> {}]
             ELSE [obj |-> MakeObj(fn, x.platform, ipf),
                   err |-> "none", fs |-> x.fs,
                   printed |-> IPFMessages(ipf)]

Sentinel1Image_init(fn, ipf, net) ==
    LET r == Construct(fn, ipf, net, fs)
    IN  /\ filename' = fn
        /\ s1' = r.obj
        /\ err' = r.err
        /\ fs' = r.fs
        /\ printed' = r.printed
        /\ op' = [name |-> "__init__", net |-> net]
        /\ UNCHANGED <<meta, ret, calls>>

\* sar-mpc.eu serves an archive for S1A and for S1B only
NetFor(platform) ==
    IF platform \in {"S1A", "S1B"} THEN NetOutcomes
    ELSE {"conn_error", "bad_zip"}

InitCtor ==
    /\ filename \in FileNames
    /\ fs \in { f \in FsStates : f.dir \subseteq {"S1A", "S1B"} }
    /\ s1 = NoObj
    /\ err = "none"
    /\ printed = {}
    /\ meta = NoMeta
    /\ op = NoOp
    /\ ret = NoRet
    /\ calls = {}

NextCtor ==
    \E fn \in FileNames, ipf \in IPFVersions :
        \E net \in NetFor(fn.platform) : Sentinel1Image_init(fn, ipf, net)

SpecCtor == InitCtor /\ [][NextCtor]_vars

(***************************************************************************)
(* C1: the constructor produces an object only for an S1A or S1B product   *)
(* of one of the four supported mode/types, and rejects every other name   *)
(* with the unsupported-product ValueError, producing no object.           *)
(***************************************************************************)
SupportedProduct(fn) ==
    /\ fn.platform \in {"S1A", "S1B"}
    /\ fn.modeType \in { <<"IW", "GRDH", "1SDH">>, <<"IW", "GRDH", "1SDV">>,
                         <<"EW", "GRDM", "1SDH">>, <<"EW", "GRDM", "1SDV">> }

C1_RejectsUnsupported ==
    op.name = "__init__" =>
        /\ (s1 # NoObj => SupportedProduct(filename))
        /\ (~SupportedProduct(filename) =>
                err = "ValueError: unsupported product" /\ s1 = NoObj)

(***************************************************************************)
(* focusedBurstLengthInTime.  meta.inputLines is the numberOfInputLines of *)
(* the inputDimensions records of the annotation, in document order.  The  *)
(* burst length is kept in units of 1/azimuthFrequency.                    *)
(***************************************************************************)
MaxInputLines == 3000

\* {'IW':1450, 'EW':1100}[obsMode]
NominalLinesPerBurst(obsMode) == IF obsMode = "IW" THEN 1450 ELSE 1100

SetMax(S) == CHOOSE m \in S : \A x \in S : x <= m

\* the range with its upper end one short
BurstRange_short(n, nominal) == 1 .. ((n \div nominal) - 1)

\* range(1, numberOfInputLines//nominalLinesPerBurst + 1)
BurstRange(n, nominal) == 1 .. (n \div nominal)

\* [ primeNumber for primeNumber in range(...) if (n % primeNumber)==0 ]
BurstCandidates(n, nominal) == { d \in BurstRange(n, nominal) : n % d = 0 }

\* one pass of the loop body, for one inputDimensions record
BurstOfSwath(n, nominal) ==
    LET cand == BurstCandidates(n, nominal)
    IN  IF cand = {}
        THEN [err |-> "ValueError: max() arg is an empty sequence",
              numberOfBursts |-> 0, length |-> 0]
        ELSE LET nb == SetMax(cand)
             IN  IF n % nb = 0
                 THEN [err |-> "none", numberOfBursts |-> nb,
                       length |-> n \div nb]
                 ELSE [err |-> "ValueError: number of bursts cannot be determined.",
                       numberOfBursts |-> nb, length |-> 0]

\* the loop over the inputDimensions records: the first error ends it
RECURSIVE BurstLoop(_, _, _, _)
BurstLoop(lines, i, nominal, acc) ==
    IF i > Len(lines) THEN [err |-> "none", dict |-> acc]
    ELSE LET b == BurstOfSwath(lines[i], nominal)
         IN  IF b.err # "none" THEN [err |-> b.err, dict |-> <<>>]
             ELSE BurstLoop(lines, i + 1, nominal, Append(acc, b))

focusedBurstLengthInTime(obsMode, lines) ==
    BurstLoop(lines, 1, NominalLinesPerBurst(obsMode), <<>>)

FocusedBurstLengthInTime ==
    /\ s1 # NoObj
    /\ meta.kind = "annotation"
    /\ LET r == focusedBurstLengthInTime(s1.obsMode, meta.inputLines)
       IN  /\ err' = r.err
           /\ ret' = [kind |-> "dict", dict |-> r.dict]
    /\ op' = [name |-> "focusedBurstLengthInTime"]
    /\ UNCHANGED <<filename, fs, s1, printed, meta, calls>>

\* numberOfInputLines of products with two inputDimensions records
InputLinesSamples == {0, 1099, 1100, 1451, 2200, 2900}

InitBurst ==
    /\ filename \in { fn \in FileNames :
                         /\ fn.platform = "S1A"
                         /\ fn.modeType \in SupportedModeTypes
                         /\ fn.start = <<20170120, 0>> }
    /\ fs = [dir |-> {"S1A"}, file |-> {"S1A"}]
    /\ s1 = MakeObj(filename, filename.platform, 291)
    /\ err = "none"
    /\ printed = {}
    /\ meta \in [kind : {"annotation"},
                 inputLines : { <<n>> : n \in 0 .. MaxInputLines } \cup
                              { <<a, b>> : a \in InputLinesSamples,
                                          b \in InputLinesSamples }]
    /\ op = NoOp
    /\ ret = NoRet
    /\ calls = {}

NextBurst == FocusedBurstLengthInTime

SpecBurst == InitBurst /\ [][NextBurst]_vars

IsPrime(n) == n > 1 /\ \A d \in 2 .. (n - 1) : n % d # 0

(***************************************************************************)
(* C9: focusedBurstLengthInTime raises an error whenever some subswath has *)
(* a prime numberOfInputLines greater than the nominal lines per burst.    *)
(***************************************************************************)
C9_PrimeRaises ==
    (/\ op.name = "focusedBurstLengthInTime"
     /\ \E i \in 1 .. Len(meta.inputLines) :
            /\ IsPrime(meta.inputLines[i])
            /\ meta.inputLines[i] > NominalLinesPerBurst(s1.obsMode))
    => err # "none"

(***************************************************************************)
(* C10: numberOfBursts is the largest divisor of numberOfInputLines that   *)
(* does not exceed numberOfInputLines / nominalLinesPerBurst, for every    *)
(* subswath, and the call raises exactly when some subswath has no such    *)
(* divisor, which is when its numberOfInputLines is below the nominal.     *)
(***************************************************************************)
IsLargestDivisor(nb, n, nominal) ==
    /\ nb >= 1 /\ n % nb = 0 /\ nb * nominal <= n
    /\ \A d \in 1 .. n : (n % d = 0 /\ d * nominal <= n) => d <= nb

HasBurstDivisor(n, nominal) ==
    \E d \in 1 .. n : n % d = 0 /\ d * nominal <= n

C10_LargestDivisor ==
    op.name = "focusedBurstLengthInTime" =>
        LET nominal == NominalLinesPerBurst(s1.obsMode)
            lines == meta.inputLines
        IN  /\ (err = "none") <=>
                    (\A i \in 1 .. Len(lines) : HasBurstDivisor(lines[i], nominal))
            /\ (err # "none") <=>
                    (\E i \in 1 .. Len(lines) : lines[i] < nominal)
            /\ err = "none" =>
                    /\ Len(ret.dict) = Len(lines)
                    /\ \A i \in 1 .. Len(lines) :
                           /\ IsLargestDivisor(ret.dict[i].numberOfBursts,
                                               lines[i], nominal)
                           /\ ret.dict[i].length * ret.dict[i].numberOfBursts
                                  = lines[i]

C10_Witness ==
    /\ op.name = "focusedBurstLengthInTime"
    /\ err = "none"
    /\ Len(meta.inputLines) = 2
    /\ ret.dict[2].numberOfBursts = 2

(***************************************************************************)
(* The JSON coefficient table and import_denoisingCoefficients.  A key     *)
(*   {platform}_{mode}_{resolution}_{pol}_{kind}_{IPF:.1f}                 *)
(* is the tuple <<platform, mode, resolution, pol, kind, tenths>>, the     *)
(* last field being the formatted IPF in tenths ("2.7" is 27).             *)
(* meta.params.keys are the keys of the table, meta.params.lacks is a      *)
(* swath number missing from every per-swath dictionary (0: none).         *)
(***************************************************************************)
\* '%0.1f' % IPFversion, in tenths; no version of IPFVersions is a tie
Fmt1(ipf) == (ipf + 5) \div 10

\* a >= b on datetimes
DateGE(a, b) == a[1] > b[1] \/ (a[1] = b[1] /\ a[2] >= b[2])

\* datetime(2017,1,16,13,42,34)
SpecialCaseDate == <<20170116, 134234>>

\* the value the table holds under a key for swath number sw
ParamValue(key, sw) ==
    IF key[5] = "NS" THEN key[6] * 10 + sw ELSE key[6] * 100 + sw

\* the special case taken whatever the platform
CoefficientIPF_anyPlatform(fn, obj) ==
    IF obj.IPFversion = 272 /\ DateGE(fn.start, SpecialCaseDate)
    THEN 280
    ELSE obj.IPFversion

\* the IPF version the keys are formed from
CoefficientIPF(fn, obj) ==
    IF /\ fn.platform = "S1B"
       /\ obj.IPFversion = 272
       /\ DateGE(fn.start, SpecialCaseDate)
    THEN 280
    ELSE obj.IPFversion

CoefficientKey(fn, obj, pol, kind) ==
    <<fn.platform, fn.modeType[1], fn.modeType[2], pol, kind,
      Fmt1(CoefficientIPF(fn, obj))>>

\* a missing key read as 0 whatever the default
CoefficientOf_zero(params, key, sw, default) ==
    IF key \in params.keys
    THEN IF sw = params.lacks THEN default ELSE ParamValue(key, sw)
    ELSE 0

\* params[key].get(subswathID, default) if key in params else default
CoefficientOf(params, key, sw, default) ==
    IF key \in params.keys
    THEN IF sw = params.lacks THEN default ELSE ParamValue(key, sw)
    ELSE default

\* import_denoisingCoefficients(pol)[:2], and the keys it looked up
import_denoisingCoefficients(fn, obj, pol, params) ==
    LET nsKey == CoefficientKey(fn, obj, pol, "NS")
        pbKey == CoefficientKey(fn, obj, pol, "PB")
    IN  [ns |-> [sw \in 1 .. obj.nSwaths |-> CoefficientOf(params, nsKey, sw, 1)],
         pb |-> [sw \in 1 .. obj.nSwaths |-> CoefficientOf(params, pbKey, sw, 0)],
         warned |-> { k \in {nsKey, pbKey} : k \notin params.keys },
         keys |-> {nsKey, pbKey}]

ImportDenoisingCoefficients(pol) ==
    /\ s1 # NoObj /\ op = NoOp
    /\ meta.kind \in {"params", "product"}
    /\ pol \in s1.pols
    /\ LET r == import_denoisingCoefficients(filename, s1, pol, meta.params)
       IN  /\ ret' = [kind |-> "coefficients", ns |-> r.ns, pb |-> r.pb]
           /\ calls' = { <<"params", k>> : k \in r.keys }
           /\ printed' = printed \cup { <<"WARNING: missing", k>> : k \in r.warned }
    /\ err' = "none"
    /\ op' = [name |-> "import_denoisingCoefficients", pol |-> pol]
    /\ UNCHANGED <<filename, fs, s1, meta>>

\* the keys of a table holding the kinds `kinds` for the versions `tenths`
TableKeys(kinds, tenths) ==
    { <<p, mr[1], mr[2], pol, k, t>> :
        p \in {"S1A", "S1B"}, mr \in { <<"IW", "GRDH">>, <<"EW", "GRDM">> },
        pol \in {"HV", "VH"}, k \in kinds, t \in tenths }

AllTenths == { Fmt1(v) : v \in IPFVersions }

Tables ==
    { [keys |-> TableKeys(kinds, tenths), lacks |-> lacks] :
        kinds \in SUBSET {"NS", "PB"},
        tenths \in {AllTenths, {28}, AllTenths \ {28}},
        lacks \in {0, 2} }

InitCoef ==
    /\ filename \in { fn \in FileNames :
                         /\ fn.platform \in {"S1A", "S1B"}
                         /\ fn.modeType \in SupportedModeTypes }
    /\ fs = [dir |-> {filename.platform}, file |-> {filename.platform}]
    /\ \E ipf \in IPFVersions : s1 = MakeObj(filename, filename.platform, ipf)
    /\ err = "none"
    /\ printed = {}
    /\ meta \in [kind : {"params"}, params : Tables]
    /\ op = NoOp
    /\ ret = NoRet
    /\ calls = {}

NextCoef == \E pol \in {"HH", "HV", "VH", "VV"} : ImportDenoisingCoefficients(pol)

SpecCoef == InitCoef /\ [][NextCoef]_vars

(***************************************************************************)
(* C6: the NS and PB entries are looked up under the IPF 2.8 key exactly   *)
(* when the platform is S1B, the IPF version is 2.72 and the sensing start *)
(* is at or after 2017-01-16 13:42:34; otherwise under the key of the      *)
(* object's own IPF version rounded to one decimal.                        *)
(***************************************************************************)
C6_SpecialCase ==
    (filename.platform = "S1B" /\ s1.IPFversion = 272
        /\ (filename.start[1] > 20170116
             \/ (filename.start[1] = 20170116 /\ filename.start[2] >= 134234)))

C6_KeyOfIPF ==
    op.name = "import_denoisingCoefficients" =>
        \E t \in 0 .. 99 :
            /\ calls = { <<"params", <<filename.platform, filename.modeType[1],
                                       filename.modeType[2], op.pol, k, t>> >> :
                            k \in {"NS", "PB"} }
            /\ (C6_SpecialCase => t = 28)
            /\ (~C6_SpecialCase =>
                    10 * t - 5 <= s1.IPFversion /\ s1.IPFversion < 10 * t + 5)

C6_Witness ==
    /\ op.name = "import_denoisingCoefficients"
    /\ C6_SpecialCase
    /\ filename.start = <<20170116, 134234>>
    /\ ret.ns[1] = 281

(***************************************************************************)
(* Rasters and vectors.  The raster of a polarisation has the lines        *)
(* 0..MaxLine and the pixels 0..MaxPixel (shape(pol)).  A range vector     *)
(* (noise, calibration) exists for every line and holds a sample at every  *)
(* pixel; its values are constant or linear in the pixel, so that an       *)
(* interpolating spline through them is exact at every integer abscissa.   *)
(***************************************************************************)
MaxLine == 1
MaxPixel == 13

Lines == 0 .. MaxLine
Pixels == 0 .. MaxPixel
Cells == Lines \X Pixels

NaN == <<>>
Fin(v) == <<v>>
\* +inf and -inf: <<1, 0>> and <<-1, 0>>
Inf(sign) == <<sign, 0>>
IsInf(x) == Len(x) = 2
\* np.isfinite
IsFinite(x) == Len(x) = 1
Sign(x) == IF IsInf(x) THEN x[1]
           ELSE IF x[1] > 0 THEN 1 ELSE IF x[1] < 0 THEN -1 ELSE 0

Add(a, b) ==
    IF a = NaN \/ b = NaN THEN NaN
    ELSE IF IsInf(a) THEN (IF IsInf(b) /\ b # a THEN NaN ELSE a)
    ELSE IF IsInf(b) THEN b
    ELSE <<a[1] + b[1]>>
Neg(a) == IF a = NaN THEN NaN
          ELSE IF IsInf(a) THEN Inf(-a[1]) ELSE <<-a[1]>>
Sub(a, b) == Add(a, Neg(b))
Mul(a, b) ==
    IF a = NaN \/ b = NaN THEN NaN
    ELSE IF IsInf(a) \/ IsInf(b)
    THEN (IF Sign(a) * Sign(b) = 0 THEN NaN ELSE Inf(Sign(a) * Sign(b)))
    ELSE <<a[1] * b[1]>>
\* x/0 is inf with the sign of x, 0/0 is NaN
Div(a, b) ==
    IF a = NaN \/ b = NaN THEN NaN
    ELSE IF IsInf(a)
    THEN (IF IsInf(b) THEN NaN ELSE Inf(IF b[1] < 0 THEN -a[1] ELSE a[1]))
    ELSE IF IsInf(b) THEN <<0>>
    ELSE IF b[1] = 0 THEN (IF a[1] = 0 THEN NaN ELSE Inf(Sign(a)))
    ELSE <<a[1] \div b[1]>>
Pow(a, k) == IF k = 2 THEN Mul(a, a) ELSE a
\* x <= v on floats: False when x is NaN
LE(a, v) == a # NaN /\ (IF IsInf(a) THEN a[1] < 0 ELSE a[1] <= v)

\* a numpy array holds its values: comparing the array with itself makes the
\* model checker compute them once instead of at every later read
Array(f) == IF f = f THEN f ELSE f

Block(fal, lal, frs, lrs) == [fal |-> fal, lal |-> lal, frs |-> frs, lrs |-> lrs]

(***************************************************************************)
(* swath_bounds(pol): for every swath number its swathBounds blocks, in    *)
(* the order of the annotation.  The blocks of a layout do not overlap.    *)
(***************************************************************************)
Layouts(obsMode) ==
    IF obsMode = "IW"
    THEN { << <<Block(0, 1, 0, 9)>>,
              <<Block(0, 1, 10, 11)>>,
              <<Block(0, 0, 12, 13)>> >>,
           << <<Block(0, 0, 0, 9), Block(1, 1, 0, 10)>>,
              <<Block(0, 0, 10, 11), Block(1, 1, 11, 12)>>,
              <<Block(0, 0, 12, 12), Block(1, 1, 13, 13)>> >> }
    ELSE { << <<Block(0, 1, 0, 9)>>,
              <<Block(0, 1, 10, 10)>>,
              <<Block(0, 1, 11, 11)>>,
              <<Block(0, 1, 12, 12)>>,
              <<Block(0, 0, 13, 13)>> >>,
           << <<Block(0, 0, 0, 9), Block(1, 1, 0, 8)>>,
              <<Block(0, 0, 10, 10), Block(1, 1, 9, 10)>>,
              <<Block(0, 1, 11, 11)>>,
              <<Block(0, 1, 12, 12)>>,
              <<Block(1, 1, 13, 13)>> >> }

InBlock(b, l, p) == b.fal <= l /\ l <= b.lal /\ b.frs <= p /\ p <= b.lrs

\* the blocks of all swaths in the order the per-swath loops visit them
RECURSIVE BlocksFrom(_, _, _)
BlocksFrom(sb, sw, i) ==
    IF sw > Len(sb) THEN <<>>
    ELSE IF i > Len(sb[sw]) THEN BlocksFrom(sb, sw + 1, 1)
    ELSE << [sw |-> sw, i |-> i, b |-> sb[sw][i]] >> \o BlocksFrom(sb, sw, i + 1)

BlockList(sb) == BlocksFrom(sb, 1, 1)

\* subswathIndexMap: the swath number of a cell, 0 outside every block
RECURSIVE IndexMapFrom(_, _, _)
IndexMapFrom(bl, i, acc) ==
    IF i > Len(bl) THEN acc
    ELSE IndexMapFrom(bl, i + 1,
            Array([c \in Cells |-> IF InBlock(bl[i].b, c[1], c[2])
                                    THEN bl[i].sw ELSE acc[c]]))

subswathIndexMap(sb) == IndexMapFrom(BlockList(sb), 1, [c \in Cells |-> 0])

\* get_swath_id_vectors: for the swathMerge records in document order
\* (order[k] is the swath number of the k-th record), the pixels of every
\* vector inside a block of the k-th record get the id k, the others keep 0
RECURSIVE IdVectorsFrom(_, _, _, _, _)
IdVectorsFrom(sb, order, k, i, acc) ==
    IF k > Len(order) THEN acc
    ELSE IF i > Len(sb[order[k]]) THEN IdVectorsFrom(sb, order, k + 1, 1, acc)
    ELSE IdVectorsFrom(sb, order, k, i + 1,
            Array([l \in Lines |-> [p \in Pixels |->
                IF InBlock(sb[order[k]][i], l, p) THEN k ELSE acc[l][p]]]))

get_swath_id_vectors(sb, order) ==
    IdVectorsFrom(sb, order, 1, 1, [l \in Lines |-> [p \in Pixels |-> 0]])

(***************************************************************************)
(* InterpolatedUnivariateSpline(x, y)(at) for the knots `knots` of the     *)
(* vector y: the knot value at a knot, else the line through the two       *)
(* nearest knots (exact for the constant and linear vectors of the model). *)
(***************************************************************************)
SetMin(S) == CHOOSE m \in S : \A x \in S : m <= x

SplineAt(y, knots, at) ==
    IF knots = {} THEN NaN
    ELSE IF at \in knots THEN y[at]
    ELSE IF Cardinality(knots) = 1 THEN y[SetMin(knots)]
    ELSE LET below == { k \in knots : k < at }
             above == { k \in knots : k > at }
             a == IF below = {} THEN SetMin(above)
                  ELSE IF above = {} THEN SetMax(below \ {SetMax(below)})
                  ELSE SetMax(below)
             b == IF below = {} THEN SetMin(above \ {SetMin(above)})
                  ELSE IF above = {} THEN SetMax(below)
                  ELSE SetMin(above)
         IN  <<y[a][1] + ((at - a) * (y[b][1] - y[a][1])) \div (b - a)>>

\* the row get_swath_interpolator builds for vector line l in block b,
\* evaluated at pixel p: a spline through the finite in-block samples
SwathRowAt(z, l, b, p) ==
    SplineAt(z[l], { q \in Pixels : b.frs <= q /\ q <= b.lrs /\ IsFinite(z[l][q]) }, p)

(***************************************************************************)
(* interp_nrv_full_size: every block of every swath is written with the    *)
(* swath interpolator's values; `writes` lists the slice assignments made. *)
(***************************************************************************)
\* the cells of z_fs[fal:lal+1, frs:lrs+1]
WriteRegion_wide(b) ==
    { c \in Cells : b.fal <= c[1] /\ c[1] <= b.lal + 1
                    /\ b.frs <= c[2] /\ c[2] <= b.lrs }

WriteRegion(b) ==
    { c \in Cells : b.fal <= c[1] /\ c[1] <= b.lal
                    /\ b.frs <= c[2] /\ c[2] <= b.lrs }

\* np.zeros(self.shape(pol)): the raster without the + np.nan
InitialRaster_zeros == [c \in Cells |-> Fin(0)]

\* np.zeros(self.shape(pol)) + np.nan
InitialRaster == [c \in Cells |-> NaN]

\* the line of swath_lines whose row the evaluation at line l reads; every
\* line carries a vector, so it is the first block of the swath holding l
RowBlock(blocks, l, b) ==
    IF \E i \in 1 .. Len(blocks) : blocks[i].fal <= l /\ l <= blocks[i].lal
    THEN blocks[CHOOSE i \in 1 .. Len(blocks) :
                    /\ blocks[i].fal <= l /\ l <= blocks[i].lal
                    /\ \A j \in 1 .. (i - 1) :
                           ~(blocks[j].fal <= l /\ l <= blocks[j].lal)]
    ELSE b

RECURSIVE InterpFrom(_, _, _, _, _, _)
InterpFrom(sb, bl, i, z, power, acc) ==
    IF i > Len(bl) THEN acc
    ELSE LET e == bl[i]
             region == WriteRegion(e.b)
         IN  InterpFrom(sb, bl, i + 1, z, power,
                [z_fs |-> Array([c \in Cells |->
                              IF c \in region
                              THEN Pow(SwathRowAt(z, c[1],
                                          RowBlock(sb[e.sw], c[1], e.b), c[2]),
                                       power)
                              ELSE acc.z_fs[c]]),
                 writes |-> Append(acc.writes,
                                   [sw |-> e.sw, i |-> e.i, cells |-> region])])

interp_nrv_full_size(sb, z, power) ==
    InterpFrom(sb, BlockList(sb), 1, Array(z), power,
               [z_fs |-> InitialRaster, writes |-> <<>>])

\* get_calibration_vectors: sigmaNought at the pixels of the noise vectors,
\* NaN at the pixels outside every block
RECURSIVE CalVectorsFrom(_, _, _, _, _)
CalVectorsFrom(sb, bl, i, cal, acc) ==
    IF i > Len(bl) THEN acc
    ELSE CalVectorsFrom(sb, bl, i + 1, cal,
            Array([l \in Lines |-> [p \in Pixels |->
                IF InBlock(bl[i].b, l, p)
                THEN SwathRowAt(cal, l, RowBlock(sb[bl[i].sw], l, bl[i].b), p)
                ELSE acc[l][p]]]))

get_calibration_vectors(sb, cal) ==
    CalVectorsFrom(sb, BlockList(sb), 1, cal,
                   [l \in Lines |-> [p \in Pixels |-> NaN]])

(***************************************************************************)
(* get_shifted_noise_vectors.  shift is the pixel_shift the minimizer      *)
(* returns for the (block, vector) pairs it is run on.                     *)
(***************************************************************************)
\* min_valid_size=10
MinValidSize == 10

RECURSIVE ShiftedFrom(_, _, _, _, _)
ShiftedFrom(bl, i, noise, shift, acc) ==
    IF i > Len(bl) THEN acc
    ELSE LET b == bl[i].b
         IN  ShiftedFrom(bl, i + 1, noise, shift,
                Array([l \in Lines |->
                    LET valid2 == { p \in Pixels : InBlock(b, l, p)
                                                    /\ IsFinite(noise[l][p]) }
                    IN  IF b.fal <= l /\ l <= b.lal
                           /\ Cardinality(valid2) >= MinValidSize
                        THEN [p \in Pixels |->
                                IF p \notin valid2 THEN acc[l][p]
                                ELSE IF \A q \in valid2 :
                                           noise[l][q] = noise[l][SetMin(valid2)]
                                     THEN noise[l][p]
                                     ELSE SplineAt(noise[l], valid2, p + shift)]
                        ELSE acc[l]]))

get_shifted_noise_vectors(sb, noise, shift) ==
    ShiftedFrom(BlockList(sb), 1, noise, shift,
                [l \in Lines |-> [p \in Pixels |-> Fin(0)]])

(***************************************************************************)
(* get_noise_tg_vectors.  meta.params.apg is the ..._APG_... entry of the  *)
(* table (or absent); meta.gtot the total gain of get_tg_vectors at the    *)
(* pixels where it is finite.  The result array has the integer dtype of   *)
(* the pixel arrays; nanCast is what the cast of NaN to it yields.         *)
(***************************************************************************)
\* min_size=3 of get_eap_rsl_vectors
MinSize == 3

NanCastOutcomes == {-9999, 0}

\* offsets[j-1] and scales[j-1] of get_tg_scales_offsets
TGOffset(apg, j) == apg.B[2 * (j - 1) + 1] \div apg.Y_SCALE
TGScale(apg, j) == (apg.B[2 * (j - 1) + 2] * apg.A_SCALE) \div apg.Y_SCALE

\* gtot of get_tg_vectors: NaN where the swath has at most min_size pixels
\* of the vector
TGVector(ids, gtot, l, p) ==
    IF Cardinality({ q \in Pixels : ids[l][q] = ids[l][p] }) > MinSize
    THEN Fin(gtot[l][p]) ELSE NaN

get_noise_tg_vectors(obj, m, nanCast) ==
    IF m.params.apg.present = FALSE THEN [err |-> "KeyError: APG", val |-> <<>>]
    ELSE IF obj.nSwaths < 5
    THEN [err |-> "KeyError: pg_swaths", val |-> <<>>]
    ELSE LET ids == get_swath_id_vectors(m.sb, m.order)
         IN  [err |-> "none",
              val |-> Array([l \in Lines |-> [p \in Pixels |->
                        IF ids[l][p] = 0 THEN Fin(0)
                        ELSE LET v == Add(Fin(TGOffset(m.params.apg, ids[l][p])),
                                          Mul(TGVector(ids, m.gtot, l, p),
                                              Fin(TGScale(m.params.apg, ids[l][p]))))
                             IN  IF v = NaN THEN Fin(nanCast) ELSE v]])]

(***************************************************************************)
(* get_scalloping_full_size: from the scalloping gain model for IPF below  *)
(* 2.9 (meta.gain[sw][line]), else from the noise azimuth vectors, one per *)
(* block with a single sample meta.nav[sw]; 0 outside every block.         *)
(***************************************************************************)
get_scalloping_full_size(obj, m) ==
    LET idx == subswathIndexMap(m.sb)
    IN  IF obj.IPFversion < 290
        THEN [c \in Cells |-> IF idx[c] = 0 THEN Fin(0)
                               ELSE Fin(m.gain[idx[c]][c[1]])]
        ELSE [c \in Cells |-> IF idx[c] = 0 THEN Fin(0)
                               ELSE Fin(m.nav[idx[c]])]

(***************************************************************************)
(* get_corrected_nesz_full_size: returns the corrected copy; `arg` is the  *)
(* caller's array after the call.                                          *)
(***************************************************************************)
\* the cells of nesz_corrected[fal:lal+1, :]
CorrectRegion_rows(b) == { c \in Cells : b.fal <= c[1] /\ c[1] <= b.lal }

\* the cells of nesz_corrected[fal:lal+1, frs:lrs+1]
CorrectRegion(b) ==
    { c \in Cells : b.fal <= c[1] /\ c[1] <= b.lal
                    /\ b.frs <= c[2] /\ c[2] <= b.lrs }

RECURSIVE CorrectFrom(_, _, _, _, _)
CorrectFrom(bl, i, ns, pb, acc) ==
    IF i > Len(bl) THEN acc
    ELSE CorrectFrom(bl, i + 1, ns, pb,
            Array([c \in Cells |->
                IF c \in CorrectRegion(bl[i].b)
                THEN Add(Mul(acc[c], Fin(ns[bl[i].sw])), Fin(pb[bl[i].sw]))
                ELSE acc[c]]))

\* np.asarray(nesz): no copy is made
CopyOfArray_alias(a) == [copied |-> FALSE, val |-> a]

\* np.array(nesz): a copy
CopyOfArray(a) == [copied |-> TRUE, val |-> a]

get_corrected_nesz_full_size(fn, obj, m, pol, nesz) ==
    LET coef == import_denoisingCoefficients(fn, obj, pol, m.params)
        work == CopyOfArray(nesz)
        out == CorrectFrom(BlockList(m.sb), 1, coef.ns, coef.pb, work.val)
    IN  [val |-> out, arg |-> IF work.copied THEN nesz ELSE out,
         printed |-> { <<"WARNING: missing", k>> : k \in coef.warned }]

(***************************************************************************)
(* get_nesz_full_size, get_raw_sigma0_full_size, remove_thermal_noise.     *)
(***************************************************************************)
Algorithms == {"ESA", "NERSC", "NERSC_TG"}

\* the branch also taken for NERSC_TG
UsesCorrection_tg(algorithm) == algorithm \in {"NERSC", "NERSC_TG"}

\* if algorithm == 'NERSC': nesz_fs = self.get_corrected_nesz_full_size(...)
UsesCorrection(algorithm) == algorithm = "NERSC"

\* the noise vectors get_nesz_full_size starts from
NoiseSource(algorithm) ==
    IF algorithm = "NERSC" THEN "get_shifted_noise_vectors"
    ELSE IF algorithm = "NERSC_TG" THEN "get_noise_tg_vectors"
    ELSE "noise_range"

\* the noise vectors get_nesz_full_size starts from, or the error of the call
SelectedNoise(obj, m, algorithm, shift, nanCast) ==
    IF NoiseSource(algorithm) = "get_shifted_noise_vectors"
    THEN [err |-> "none",
          val |-> get_shifted_noise_vectors(m.sb, m.noise, shift)]
    ELSE IF NoiseSource(algorithm) = "get_noise_tg_vectors"
    THEN get_noise_tg_vectors(obj, m, nanCast)
    ELSE [err |-> "none", val |-> m.noise]

\* nesz = [n / c**2 for (n,c) in zip(noise, cal_s0)]
CalibratedNoise(noise, cal_s0) ==
    Array([l \in Lines |-> [p \in Pixels |->
              Div(noise[l][p], Mul(cal_s0[l][p], cal_s0[l][p]))]])

\* nesz_fs *= self.get_scalloping_full_size(pol)
Scalloped(nesz_fs, scall) == Array([c \in Cells |-> Mul(nesz_fs[c], scall[c])])

\* the calibrated, interpolated and scalloped NESZ of the noise vectors
NeszOfVectors(obj, m, noise) ==
    Scalloped(interp_nrv_full_size(m.sb,
                  CalibratedNoise(noise, get_calibration_vectors(m.sb, m.cal)),
                  1).z_fs,
              get_scalloping_full_size(obj, m))

\* what get_nesz_full_size returns after get_corrected_nesz_full_size
CorrectedResult(corrected, called) ==
    [err |-> "none", val |-> corrected.val,
     calls |-> called \cup {<<"get_corrected_nesz_full_size">>},
     printed |-> corrected.printed]

\* NERSC correction of NESZ magnitude
MagnitudeStep(fn, obj, m, pol, algorithm, nesz_fs, called) ==
    IF UsesCorrection(algorithm)
    THEN CorrectedResult(get_corrected_nesz_full_size(fn, obj, m, pol, nesz_fs),
                         called)
    ELSE [err |-> "none", val |-> nesz_fs, calls |-> called, printed |-> {}]

NeszOfNoise(fn, obj, m, pol, algorithm, sel, called) ==
    IF sel.err # "none"
    THEN [err |-> sel.err, val |-> <<>>, calls |-> called, printed |-> {}]
    ELSE MagnitudeStep(fn, obj, m, pol, algorithm,
                       NeszOfVectors(obj, m, sel.val), called)

get_nesz_full_size(fn, obj, m, pol, algorithm, shift, nanCast) ==
    NeszOfNoise(fn, obj, m, pol, algorithm,
                SelectedNoise(obj, m, algorithm, shift, nanCast),
                {<<"noise_range">>, <<NoiseSource(algorithm)>>})

\* dn.astype(float)**2 / cal_fs, NaN where dn <= min_dn
CalibratedDN(dn, cal_fs, min_dn) ==
    Array([c \in Cells |-> IF dn[c] <= min_dn THEN NaN
                           ELSE Div(Fin(dn[c] * dn[c]), cal_fs[c])])

get_raw_sigma0_full_size(m, min_dn) ==
    CalibratedDN(m.dn, interp_nrv_full_size(m.sb, m.cal, 2).z_fs, min_dn)

\* the distance of two cells, squared
CellDistance2(c, e) ==
    (c[1] - e[1]) * (c[1] - e[1]) + (c[2] - e[2]) * (c[2] - e[2])

\* fill_gaps(array, mask) of s1denoise.utils: a masked cell takes the value
\* of the nearest cell that is not masked
fill_gaps(a, mask) ==
    Array([c \in Cells |->
        IF c \in mask /\ Cells \ mask # {}
        THEN a[CHOOSE e \in Cells \ mask :
                  \A f \in Cells \ mask :
                     CellDistance2(c, e) <= CellDistance2(c, f)]
        ELSE a[c]])

\* sigma0 += nesz_fs
SubtractNesz_added(raw, nesz_fs) == Array([c \in Cells |-> Add(raw[c], nesz_fs[c])])

\* sigma0 -= nesz_fs
SubtractNesz(raw, nesz_fs) == Array([c \in Cells |-> Sub(raw[c], nesz_fs[c])])

\* if remove_negative: sigma0 = fill_gaps(sigma0, sigma0 <= 0)
RemoveNegative(sigma0, remove_negative) ==
    IF remove_negative
    THEN fill_gaps(sigma0, { c \in Cells : LE(sigma0[c], 0) })
    ELSE sigma0

\* the result of remove_thermal_noise; diff is sigma0 before the gap fill
DenoisedResult(n, sigma0, remove_negative) ==
    [err |-> "none",
     val |-> RemoveNegative(sigma0, remove_negative),
     calls |-> n.calls \cup {<<"get_nesz_full_size">>,
                              <<"get_raw_sigma0_full_size">>},
     diff |-> sigma0,
     printed |-> n.printed]

DenoisedOf(m, n, remove_negative, min_dn) ==
    IF n.err # "none"
    THEN [err |-> n.err, val |-> <<>>, calls |-> n.calls, diff |-> <<>>,
          printed |-> {}]
    ELSE DenoisedResult(n,
             SubtractNesz(get_raw_sigma0_full_size(m, min_dn), n.val),
             remove_negative)

remove_thermal_noise(fn, obj, m, pol, algorithm, remove_negative, min_dn, shift, nanCast) ==
    DenoisedOf(m, get_nesz_full_size(fn, obj, m, pol, algorithm, shift, nanCast),
               remove_negative, min_dn)

(***************************************************************************)
(* The operations of a constructed Sentinel1Image.  They leave the object  *)
(* as it is, so a behaviour is one call on the constructed object.         *)
(***************************************************************************)
InterpNrvFullSize(which) ==
    /\ s1 # NoObj /\ op = NoOp /\ meta.kind = "product"
    /\ \E r \in {interp_nrv_full_size(meta.sb,
                       IF which = "noise" THEN meta.noise ELSE meta.cal,
                       IF which = "noise" THEN 1 ELSE 2)} :
          ret' = [kind |-> "raster", val |-> r.z_fs, writes |-> r.writes]
    /\ err' = "none"
    /\ op' = [name |-> "interp_nrv_full_size", z |-> which]
    /\ calls' = {}
    /\ UNCHANGED <<filename, fs, s1, printed, meta>>

\* the rasters handed to get_corrected_nesz_full_size
ArgRaster(which) ==
    IF which = "finite" THEN Array([c \in Cells |-> Fin(3 + c[1] + 2 * c[2])])
    ELSE interp_nrv_full_size(meta.sb, meta.noise, 1).z_fs

GetCorrectedNeszFullSize(pol, which) ==
    /\ s1 # NoObj /\ op = NoOp /\ meta.kind = "product" /\ pol \in s1.pols
    /\ \E nesz \in {ArgRaster(which)} :
       \E r \in {get_corrected_nesz_full_size(filename, s1, meta, pol, nesz)} :
          /\ ret' = [kind |-> "raster", val |-> r.val, arg |-> r.arg]
          /\ printed' = printed \cup r.printed
          /\ op' = [name |-> "get_corrected_nesz_full_size", pol |-> pol,
                    nesz |-> nesz]
    /\ err' = "none"
    /\ calls' = {<<"import_denoisingCoefficients">>}
    /\ UNCHANGED <<filename, fs, s1, meta>>

GetRawSigma0FullSize(pol, min_dn) ==
    /\ s1 # NoObj /\ op = NoOp /\ meta.kind = "product" /\ pol \in s1.pols
    /\ ret' = [kind |-> "raster", val |-> get_raw_sigma0_full_size(meta, min_dn)]
    /\ err' = "none"
    /\ op' = [name |-> "get_raw_sigma0_full_size", pol |-> pol, min_dn |-> min_dn]
    /\ calls' = {<<"interp_nrv_full_size">>}
    /\ UNCHANGED <<filename, fs, s1, printed, meta>>

\* the minimizer and the NaN cast act only on the paths that run them
Shifts(algorithm) == IF algorithm = "NERSC" THEN {-1, 0, 1} ELSE {0}
NanCasts(algorithm) == IF algorithm = "NERSC_TG" THEN NanCastOutcomes ELSE {0}

GetNeszFullSize(pol, algorithm, shift, nanCast) ==
    /\ s1 # NoObj /\ op = NoOp /\ meta.kind = "product" /\ pol \in s1.pols
    /\ shift \in Shifts(algorithm) /\ nanCast \in NanCasts(algorithm)
    /\ \E r \in {get_nesz_full_size(filename, s1, meta, pol, algorithm, shift,
                                     nanCast)} :
          /\ ret' = IF r.err = "none" THEN [kind |-> "raster", val |-> r.val]
                    ELSE NoRet
          /\ err' = r.err
          /\ calls' = r.calls
          /\ printed' = printed \cup r.printed
    /\ op' = [name |-> "get_nesz_full_size", pol |-> pol,
              algorithm |-> algorithm, shift |-> shift]
    /\ UNCHANGED <<filename, fs, s1, meta>>

RemoveThermalNoise(pol, algorithm, remove_negative, min_dn, shift, nanCast) ==
    /\ s1 # NoObj /\ op = NoOp /\ meta.kind = "product" /\ pol \in s1.pols
    /\ shift \in Shifts(algorithm) /\ nanCast \in NanCasts(algorithm)
    /\ \E r \in {remove_thermal_noise(filename, s1, meta, pol, algorithm,
                                       remove_negative, min_dn, shift, nanCast)} :
          /\ ret' = IF r.err = "none"
                    THEN [kind |-> "raster", val |-> r.val, diff |-> r.diff]
                    ELSE NoRet
          /\ err' = r.err
          /\ calls' = r.calls
          /\ printed' = printed \cup r.printed
    /\ op' = [name |-> "remove_thermal_noise", pol |-> pol,
              algorithm |-> algorithm, remove_negative |-> remove_negative,
              min_dn |-> min_dn, shift |-> shift]
    /\ UNCHANGED <<filename, fs, s1, meta>>

(***************************************************************************)
(* The products of the pipeline specification.                             *)
(***************************************************************************)
PipeProducts ==
    { [platform |-> "S1A", modeType |-> <<"IW", "GRDH", "1SDH">>,
       start |-> <<20170120, 0>>],
      [platform |-> "S1B", modeType |-> <<"EW", "GRDM", "1SDV">>,
       start |-> <<20170120, 0>>] }

PipeIPF == {240, 272, 291}

APGEntry == [present |-> TRUE, B |-> <<1, 2, 2, 3, 3, 2, 4, 3, 5, 2>>,
             A_SCALE |-> 2, Y_SCALE |-> 1]
NoAPGEntry == [present |-> FALSE]

PipeTables ==
    { [keys |-> TableKeys(t[1], AllTenths), lacks |-> 0, apg |-> t[2]] :
        t \in { <<{"NS", "PB"}, APGEntry>>, <<{}, APGEntry>>,
                 <<{"NS"}, NoAPGEntry>>, <<{"PB"}, NoAPGEntry>> } }

\* noiseRangeVectorList: a flat vector at line 0, sloped ones below
NoiseVectors == [l \in Lines |-> [p \in Pixels |-> Fin(16 + 8 * l + 4 * l * p)]]

\* the digital numbers of the measurement: some 0, some 1, the rest bright
DNRaster ==
    [c \in Cells |-> IF (c[1] + c[2]) % 3 = 0 THEN c[2] % 2
                      ELSE 40 + ((c[1] + c[2]) % 3)]

Identity(n) == [k \in 1 .. n |-> k]

InitPipe ==
    /\ filename \in PipeProducts
    /\ fs = [dir |-> {filename.platform}, file |-> {filename.platform}]
    /\ \E ipf \in PipeIPF : s1 = MakeObj(filename, filename.platform, ipf)
    /\ err = "none"
    /\ printed = IPFMessages(s1.IPFversion)
    /\ \E sb \in Layouts(filename.modeType[1]), t \in PipeTables :
          meta = [kind |-> "product",
                  sb |-> sb,
                  order |-> Identity(Len(sb)),
                  noise |-> NoiseVectors,
                  cal |-> [l \in Lines |-> [p \in Pixels |-> Fin(2)]],
                  dn |-> DNRaster,
                  gtot |-> [l \in Lines |-> [p \in Pixels |-> 1 + ((l + p) % 3)]],
                  gain |-> [sw \in 1 .. Len(sb) |->
                               [l \in Lines |-> 1 + ((sw + l) % 2)]],
                  nav |-> [sw \in 1 .. Len(sb) |-> 1 + (sw % 2)],
                  params |-> t]
    /\ op = NoOp
    /\ ret = NoRet
    /\ calls = {}

NextPipe ==
    \/ \E pol \in {"HH", "HV", "VH", "VV"} : ImportDenoisingCoefficients(pol)
    \/ \E which \in {"noise", "cal"} : InterpNrvFullSize(which)
    \/ \E pol \in {"HH", "HV", "VH", "VV"}, which \in {"finite", "nesz"} :
          GetCorrectedNeszFullSize(pol, which)
    \/ \E pol \in {"HH", "HV", "VH", "VV"}, min_dn \in {0, 1} :
          GetRawSigma0FullSize(pol, min_dn)
    \/ \E pol \in {"HH", "HV", "VH", "VV"}, a \in Algorithms,
          shift \in {-1, 0, 1}, nanCast \in NanCastOutcomes :
          GetNeszFullSize(pol, a, shift, nanCast)
    \/ \E pol \in {"HH", "HV", "VH", "VV"}, a \in Algorithms,
          rn \in BOOLEAN, min_dn \in {0, 1},
          shift \in {-1, 0, 1}, nanCast \in NanCastOutcomes :
          RemoveThermalNoise(pol, a, rn, min_dn, shift, nanCast)

SpecPipe == InitPipe /\ [][NextPipe]_vars

(***************************************************************************)
(* Properties of the pipeline.                                             *)
(***************************************************************************)
\* the cells of the image outside every swathBounds block
OutsideAllBlocks ==
    { c \in Cells : \A sw \in 1 .. Len(meta.sb) : \A i \in 1 .. Len(meta.sb[sw]) :
                        ~InBlock(meta.sb[sw][i], c[1], c[2]) }

\* the swath numbers having a block that holds cell c
SwathsOf(c) ==
    { sw \in 1 .. Len(meta.sb) : \E i \in 1 .. Len(meta.sb[sw]) :
                                     InBlock(meta.sb[sw][i], c[1], c[2]) }

\* the full-size NESZ of the noise vectors `noise`, before any ns/pb step
PlainNesz(noise) == NeszOfVectors(s1, meta, noise)

\* the noise vectors the claim assigns to an algorithm tag
VectorsOfTag(algorithm, shift, nanCast) ==
    IF algorithm = "NERSC"
    THEN get_shifted_noise_vectors(meta.sb, meta.noise, shift)
    ELSE IF algorithm = "NERSC_TG"
    THEN get_noise_tg_vectors(s1, meta, nanCast).val
    ELSE meta.noise

(***************************************************************************)
(* C2: get_nesz_full_size takes the raw annotation noise vectors for ESA,  *)
(* the shift-corrected vectors for NERSC and the total-gain vectors for    *)
(* NERSC_TG, and applies the per-swath ns/pb step to the full-size NESZ    *)
(* for NERSC only, never for ESA or NERSC_TG.                              *)
(***************************************************************************)
C2_SelectsByAlgorithm ==
    (op.name = "get_nesz_full_size") =>
        /\ (<<"get_shifted_noise_vectors">> \in calls) <=> (op.algorithm = "NERSC")
        /\ (<<"get_noise_tg_vectors">> \in calls) <=> (op.algorithm = "NERSC_TG")
        /\ (<<"get_corrected_nesz_full_size">> \in calls) =>
               (op.algorithm = "NERSC")
        /\ (err = "none") =>
              \E nanCast \in NanCastOutcomes :
                 LET plain == PlainNesz(VectorsOfTag(op.algorithm, op.shift,
                                                         nanCast))
                 IN  IF op.algorithm = "NERSC"
                     THEN /\ <<"get_corrected_nesz_full_size">> \in calls
                          /\ ret.val = get_corrected_nesz_full_size(
                                           filename, s1, meta, op.pol, plain).val
                     ELSE ret.val = plain

\* a NERSC call whose ns/pb step changed the NESZ of the shifted vectors
C2_Witness ==
    /\ op.name = "get_nesz_full_size" /\ op.algorithm = "NERSC"
    /\ err = "none" /\ op.shift = 1
    /\ ret.val # PlainNesz(VectorsOfTag("NERSC", 1, 0))
    /\ PlainNesz(VectorsOfTag("NERSC", 1, 0)) # PlainNesz(meta.noise)

(***************************************************************************)
(* C3: every cell outside every swathBounds block is NaN in the raster     *)
(* remove_thermal_noise returns and in the raster get_raw_sigma0_full_size *)
(* returns, for every algorithm and with remove_negative on or off.        *)
(***************************************************************************)
C3_OutsideIsNaN ==
    (op.name \in {"remove_thermal_noise", "get_raw_sigma0_full_size"}
        /\ err = "none") =>
        \A c \in OutsideAllBlocks : ret.val[c] = NaN

\* remove_negative filled a cell that was <= 0, next to cells outside the blocks
C3_Witness ==
    /\ op.name = "remove_thermal_noise" /\ err = "none"
    /\ op.remove_negative /\ op.algorithm = "NERSC"
    /\ OutsideAllBlocks # {}
    /\ \A c \in OutsideAllBlocks : ret.val[c] = NaN
    /\ \E c \in Cells : LE(ret.diff[c], 0) /\ IsFinite(ret.val[c])
                          /\ ret.val[c] # ret.diff[c]

(***************************************************************************)
(* C4: with blocks that do not overlap, interp_nrv_full_size writes every  *)
(* raster cell at most once over all swaths and blocks; each write covers  *)
(* exactly the cells [fal..lal] x [frs..lrs] of the block being processed  *)
(* and no cell of a block of another swath.                                *)
(***************************************************************************)
C4_WritesOnce ==
    (op.name = "interp_nrv_full_size") =>
        /\ \A j \in 1 .. Len(ret.writes) :
              LET w == ret.writes[j]
                  b == meta.sb[w.sw][w.i]
              IN  /\ w.cells = { c \in Cells : InBlock(b, c[1], c[2]) }
                  /\ \A c \in w.cells : SwathsOf(c) = {w.sw}
        /\ \A c \in Cells :
              Cardinality({ j \in 1 .. Len(ret.writes) :
                              c \in ret.writes[j].cells }) <= 1
        /\ \A sw \in 1 .. Len(meta.sb) : \A i \in 1 .. Len(meta.sb[sw]) :
              \E j \in 1 .. Len(ret.writes) :
                 ret.writes[j].sw = sw /\ ret.writes[j].i = i

\* a product with two blocks per swath, written block by block
C4_Witness ==
    /\ op.name = "interp_nrv_full_size"
    /\ Len(ret.writes) > Len(meta.sb)
    /\ \E c \in Cells : \E j \in 1 .. Len(ret.writes) :
          c \in ret.writes[j].cells /\ IsFinite(ret.val[c])
    /\ \E c \in Cells : \A j \in 1 .. Len(ret.writes) :
          c \notin ret.writes[j].cells

(***************************************************************************)
(* C5: get_corrected_nesz_full_size returns a raster whose cells inside a  *)
(* block of swath s are nesz*ns[s] + pb[s], applied once, and whose cells  *)
(* outside all blocks are the input values; the raster passed in is left   *)
(* unchanged.                                                              *)
(***************************************************************************)
C5_ScaledOncePerCell ==
    (op.name = "get_corrected_nesz_full_size") =>
        LET coef == import_denoisingCoefficients(filename, s1, op.pol,
                                                 meta.params)
        IN  /\ \A c \in Cells : \A sw \in SwathsOf(c) :
                  ret.val[c] = Add(Mul(op.nesz[c], Fin(coef.ns[sw])),
                                   Fin(coef.pb[sw]))
            /\ \A c \in OutsideAllBlocks : ret.val[c] = op.nesz[c]
            /\ ret.arg = op.nesz

\* a finite raster scaled inside the blocks and kept outside them
C5_Witness ==
    /\ op.name = "get_corrected_nesz_full_size"
    /\ \A c \in Cells : IsFinite(op.nesz[c])
    /\ \E c \in Cells : SwathsOf(c) # {} /\ ret.val[c] # op.nesz[c]
    /\ \E c \in OutsideAllBlocks : ret.val[c] = op.nesz[c]
    /\ ret.arg = op.nesz /\ ret.val # ret.arg

(***************************************************************************)
(* C7: when the table has no NS entry (no PB entry) under the product's    *)
(* key, import_denoisingCoefficients does not raise and returns ns = 1     *)
(* (pb = 0) for every swath of the product, and the ns/pb step of          *)
(* get_corrected_nesz_full_size leaves the NESZ as it was.                 *)
(***************************************************************************)
MissingKind(pol, kind) ==
    CoefficientKey(filename, s1, pol, kind) \notin meta.params.keys

C7_MissingCoefficients ==
    /\ (op.name = "import_denoisingCoefficients" /\ meta.kind = "product") =>
          /\ err = "none"
          /\ DOMAIN ret.ns = 1 .. s1.nSwaths /\ DOMAIN ret.pb = 1 .. s1.nSwaths
          /\ MissingKind(op.pol, "NS") => \A sw \in 1 .. s1.nSwaths : ret.ns[sw] = 1
          /\ MissingKind(op.pol, "PB") => \A sw \in 1 .. s1.nSwaths : ret.pb[sw] = 0
    /\ (op.name = "get_corrected_nesz_full_size") =>
          /\ err = "none"
          /\ (MissingKind(op.pol, "NS") /\ MissingKind(op.pol, "PB")) =>
                ret.val = op.nesz
          /\ (MissingKind(op.pol, "NS") /\ ~MissingKind(op.pol, "PB")) =>
                \A c \in Cells : \A sw \in SwathsOf(c) :
                   ret.val[c] = Add(op.nesz[c],
                                    Fin(ParamValue(CoefficientKey(filename, s1,
                                                       op.pol, "PB"), sw)))

\* a table without either entry: the scaling step returned the NESZ it got
C7_Witness ==
    /\ op.name = "get_corrected_nesz_full_size"
    /\ MissingKind(op.pol, "NS") /\ MissingKind(op.pol, "PB")
    /\ \A c \in Cells : IsFinite(op.nesz[c])
    /\ ret.val = op.nesz
    /\ <<"WARNING: missing", CoefficientKey(filename, s1, op.pol, "NS")>> \in printed
    /\ <<"WARNING: missing", CoefficientKey(filename, s1, op.pol, "PB")>> \in printed

(***************************************************************************)
(* C8: for a product with IPF version below 2.43, a request for NERSC is   *)
(* served from the total-gain vectors, not from the shift-corrected        *)
(* annotation vectors.                                                     *)
(***************************************************************************)
C8_FallsBackToTG ==
    (op.name = "get_nesz_full_size" /\ op.algorithm = "NERSC"
        /\ s1.IPFversion < 243) =>
        /\ <<"get_noise_tg_vectors">> \in calls
        /\ <<"get_shifted_noise_vectors">> \notin calls

(***************************************************************************)
(* C11: with remove_negative false remove_thermal_noise returns sigma0     *)
(* minus NESZ at every pixel; with remove_negative true only the pixels    *)
(* whose difference is <= 0 are replaced, and every pixel whose difference *)
(* is positive or NaN keeps its value.                                     *)
(***************************************************************************)
C11_OnlyNonPositiveReplaced ==
    (op.name = "remove_thermal_noise" /\ err = "none") =>
        \E nanCast \in NanCastOutcomes :
        \E nesz \in {get_nesz_full_size(filename, s1, meta, op.pol,
                                        op.algorithm, op.shift, nanCast)} :
        \E raw \in {get_raw_sigma0_full_size(meta, op.min_dn)} :
           /\ nesz.err = "none"
           /\ \A c \in Cells : ret.diff[c] = Sub(raw[c], nesz.val[c])
           /\ ~op.remove_negative => ret.val = ret.diff
           /\ op.remove_negative =>
                 \A c \in Cells : ~LE(ret.diff[c], 0) => ret.val[c] = ret.diff[c]

\* one pixel replaced, one positive pixel and one NaN pixel kept
C11_Witness ==
    /\ op.name = "remove_thermal_noise" /\ err = "none" /\ op.remove_negative
    /\ op.algorithm = "ESA"
    /\ \E c \in Cells : LE(ret.diff[c], 0) /\ ret.val[c] # ret.diff[c]
    /\ \E c \in Cells : IsFinite(ret.diff[c]) /\ ~LE(ret.diff[c], 0)
                          /\ ret.val[c] = ret.diff[c]
    /\ \E c \in Cells : ret.diff[c] = NaN /\ ret.val[c] = NaN


(***************************************************************************)
(* Texture noise removal.  Window and weight are in tenths (window 3 is    *)
(* sigma 0.3, weight 1 is 0.1).  A behaviour of SpecTexture is a sequence  *)
(* of calls on one object: Return ends a call, the object and the printed  *)
(* lines stay.                                                             *)
(***************************************************************************)
\* if self.IPFversion == 3.2: self.IPFversion = 3.1
TreatAs31(obj) ==
    IF obj.IPFversion = 320 THEN [obj EXCEPT !.IPFversion = 310] ELSE obj

\* the sum np.nanmean divides: over the cells that are not NaN
RECURSIVE NanSum(_, _)
NanSum(a, S) ==
    IF S = {} THEN Fin(0)
    ELSE LET c == CHOOSE e \in S : TRUE IN Add(a[c], NanSum(a, S \ {c}))

NotNaNCells(a) == { c \in Cells : a[c] # NaN }

\* np.nanmean(nesz): NaN when every cell is NaN
nanmean(a) ==
    IF NotNaNCells(a) = {} THEN NaN
    ELSE Div(NanSum(a, NotNaNCells(a)), Fin(Cardinality(NotNaNCells(a))))

\* s0_offset == 0: the mean is zero exactly when the sum is
MeanIsZero(a) == NotNaNCells(a) # {} /\ NanSum(a, NotNaNCells(a)) = Fin(0)

\* a < v of a float, False for NaN
Below(a, v) == a # NaN /\ (IF IsInf(a) THEN a[1] < 0 ELSE a[1] < v)

\* np.nanmin(sigma0o) < 0
NanMinBelow(a, v) == \E c \in Cells : Below(a[c], v)

\* scipy.ndimage: lw = int(truncate * sd + 0.5), truncate = 4.0
GaussRadius(window) == (4 * window + 5) \div 10

\* the kernel weight at distance d, the largest at the centre
GaussWeight(d) == IF d = 0 THEN 2 ELSE 1

\* the sum of the kernel weights of radius r
WeightSum(r) == 2 + 2 * r

\* mode='reflect': (d c b a | a b c d | d c b a)
Reflect(i, n) == IF i < 0 THEN -i - 1 ELSE IF i > n THEN 2 * n - i + 1 ELSE i

\* the cell d steps from c along the axis, reflected at the image border
StepFrom(c, axis, d) ==
    IF axis = 1 THEN <<Reflect(c[1] + d, MaxLine), c[2]>>
    ELSE <<c[1], Reflect(c[2] + d, MaxPixel)>>

RECURSIVE KernelSum(_, _, _, _, _)
KernelSum(a, c, axis, d, r) ==
    IF d > r THEN Fin(0)
    ELSE Add(Mul(Fin(GaussWeight(d)), a[StepFrom(c, axis, d)]),
             KernelSum(a, c, axis, d + 1, r))

\* scipy.ndimage.correlate1d with the normalised kernel
correlate1d(a, axis, r) ==
    Array([c \in Cells |-> Div(KernelSum(a, c, axis, -r, r), Fin(WeightSum(r)))])

\* scipy.ndimage.gaussian_filter(sigma0, window): one pass per axis
gaussian_filter(a, window) ==
    correlate1d(correlate1d(a, 1, GaussRadius(window)), 2, GaussRadius(window))

\* sigma0o = (weight * sigma0g + snr * sigma0) / (weight + snr) + s0_offset
WeightedMean(sigma0, sigma0g, snr, weight, s0_offset) ==
    Array([c \in Cells |->
        Add(Div(Add(Mul(Fin(weight), sigma0g[c]),
                    Mul(Fin(10), Mul(snr[c], sigma0[c]))),
                Add(Fin(weight), Mul(Fin(10), snr[c]))),
            s0_offset)])

\* snr = sigma0g / nesz
SignalToNoise(sigma0g, nesz) == Array([c \in Cells |-> Div(sigma0g[c], nesz[c])])

Smoothed(sigma0, sigma0g, nesz, weight) ==
    WeightedMean(sigma0, sigma0g, SignalToNoise(sigma0g, nesz), weight,
                 nanmean(nesz))

\* the test that always takes the else branch
SkipsRemoval_never(nesz) == FALSE

\* if s0_offset == 0: sigma0o = sigma0
SkipsRemoval(nesz) == MeanIsZero(nesz)

\* sigma0o before the gap fill
TextureWeighted(raw, nesz, window, weight) ==
    IF SkipsRemoval(nesz) THEN raw
    ELSE Smoothed(SubtractNesz(raw, nesz),
                  gaussian_filter(SubtractNesz(raw, nesz), window), nesz, weight)

\* if remove_negative and np.nanmin(sigma0o) < 0:
\*     sigma0o = fill_gaps(sigma0o, sigma0o <= s0_min)
ClipBelow(sigma0o, remove_negative, s0_min) ==
    IF remove_negative /\ NanMinBelow(sigma0o, 0)
    THEN fill_gaps(sigma0o, { c \in Cells : LE(sigma0o[c], s0_min) })
    ELSE sigma0o

TextureResult(n, raw, sigma0o, remove_negative, s0_min) ==
    [err |-> "none",
     val |-> ClipBelow(sigma0o, remove_negative, s0_min),
     weighted |-> sigma0o,
     raw |-> raw,
     skipped |-> SkipsRemoval(n.val),
     calls |-> n.calls \cup {<<"get_raw_sigma0_full_size">>,
                              <<"get_nesz_full_size">>},
     printed |-> n.printed]

TextureOf(n, raw, window, weight, s0_min, remove_negative) ==
    IF n.err # "none"
    THEN [err |-> n.err, val |-> <<>>, weighted |-> <<>>, raw |-> raw,
          skipped |-> FALSE, calls |-> n.calls, printed |-> {}]
    ELSE TextureResult(n, raw, TextureWeighted(raw, n.val, window, weight),
                       remove_negative, s0_min)

\* the raster remove_texture_noise returns; the object it leaves is TreatAs31
remove_texture_noise(fn, obj, m, pol, window, weight, s0_min, remove_negative, algorithm, min_dn, shift, nanCast) ==
    TextureOf(get_nesz_full_size(fn, TreatAs31(obj), m, pol, algorithm, shift,
                                 nanCast),
              get_raw_sigma0_full_size(m, min_dn),
              window, weight, s0_min, remove_negative)

RemoveTextureNoise(pol, window, weight, s0_min, remove_negative, algorithm, min_dn, shift, nanCast) ==
    /\ s1 # NoObj /\ op = NoOp /\ meta.kind = "product" /\ pol \in s1.pols
    /\ shift \in Shifts(algorithm) /\ nanCast \in NanCasts(algorithm)
    /\ \E r \in {remove_texture_noise(filename, s1, meta, pol, window, weight,
                                       s0_min, remove_negative, algorithm,
                                       min_dn, shift, nanCast)} :
          /\ ret' = IF r.err = "none"
                    THEN [kind |-> "raster", val |-> r.val,
                          weighted |-> r.weighted, raw |-> r.raw,
                          skipped |-> r.skipped]
                    ELSE NoRet
          /\ err' = r.err
          /\ calls' = r.calls
          /\ printed' = printed \cup r.printed
    /\ s1' = TreatAs31(s1)
    /\ op' = [name |-> "remove_texture_noise", pol |-> pol, window |-> window,
              weight |-> weight, s0_min |-> s0_min,
              remove_negative |-> remove_negative, algorithm |-> algorithm,
              min_dn |-> min_dn, shift |-> shift]
    /\ UNCHANGED <<filename, fs, meta>>

\* the call has returned or raised; the caller holds the object still
Return ==
    /\ op # NoOp
    /\ op' = NoOp /\ ret' = NoRet /\ err' = "none" /\ calls' = {}
    /\ UNCHANGED <<filename, fs, s1, printed, meta>>

\* noise vectors of a product whose annotation holds only zeros
ZeroNoise == [l \in Lines |-> [p \in Pixels |-> Fin(0)]]

TextureIPF == {310, 320}

FullTable ==
    [keys |-> TableKeys({"NS", "PB"}, AllTenths), lacks |-> 0, apg |-> APGEntry]

InitTexture ==
    /\ filename \in PipeProducts
    /\ fs = [dir |-> {filename.platform}, file |-> {filename.platform}]
    /\ \E ipf \in TextureIPF : s1 = MakeObj(filename, filename.platform, ipf)
    /\ err = "none"
    /\ printed = IPFMessages(s1.IPFversion)
    /\ \E sb \in Layouts(filename.modeType[1]), noise \in {NoiseVectors, ZeroNoise} :
          meta = [kind |-> "product",
                  ipf |-> s1.IPFversion,
                  sb |-> sb,
                  order |-> Identity(Len(sb)),
                  noise |-> noise,
                  cal |-> [l \in Lines |-> [p \in Pixels |-> Fin(2)]],
                  dn |-> DNRaster,
                  gtot |-> [l \in Lines |-> [p \in Pixels |-> 1 + ((l + p) % 3)]],
                  gain |-> [sw \in 1 .. Len(sb) |->
                               [l \in Lines |-> 1 + ((sw + l) % 2)]],
                  nav |-> [sw \in 1 .. Len(sb) |-> 1 + (sw % 2)],
                  params |-> FullTable]
    /\ op = NoOp /\ ret = NoRet /\ calls = {}

NextTexture ==
    \/ \E pol \in {"HH", "HV", "VH", "VV"} : ImportDenoisingCoefficients(pol)
    \/ \E pol \in {"HH", "HV", "VH", "VV"}, a \in Algorithms,
          shift \in {-1, 0, 1}, nanCast \in NanCastOutcomes :
          GetNeszFullSize(pol, a, shift, nanCast)
    \/ \E pol \in {"HH", "HV", "VH", "VV"}, a \in Algorithms,
          rn \in BOOLEAN, nanCast \in NanCastOutcomes :
          RemoveThermalNoise(pol, a, rn, 0, 0, nanCast)
    \/ \E pol \in {"HH", "HV", "VH", "VV"}, window \in {1, 3}, s0_min \in {0, 5},
          rn \in BOOLEAN, a \in Algorithms, nanCast \in NanCastOutcomes :
          RemoveTextureNoise(pol, window, 1, s0_min, rn, a, 0, 0, nanCast)
    \/ Return

SpecTexture == InitTexture /\ [][NextTexture]_vars

(***************************************************************************)
(* Properties of the texture noise removal.                                *)
(***************************************************************************)
\* C12: when the mean of NESZ over the scene is zero, remove_texture_noise
\* returns the raw calibrated sigma0 at every pixel: nothing is subtracted,
\* smoothed or offset
C12_SkipsWhenMeanZero ==
    (op.name = "remove_texture_noise" /\ err = "none") =>
        \A nanCast \in NanCasts(op.algorithm) :
        \E nesz \in {get_nesz_full_size(filename, s1, meta, op.pol,
                                        op.algorithm, op.shift, nanCast)} :
           (nesz.err = "none" /\ MeanIsZero(nesz.val)) =>
               \A c \in Cells :
                  ret.val[c] = get_raw_sigma0_full_size(meta, op.min_dn)[c]

\* a call with the gap fill asked for and a positive s0_min that met a zero
\* NESZ mean and returned a raster with bright and with NaN cells
C12_Witness ==
    /\ op.name = "remove_texture_noise" /\ err = "none"
    /\ op.remove_negative /\ op.s0_min = 5
    /\ meta.noise = ZeroNoise /\ op.algorithm = "ESA"
    /\ ret.skipped
    /\ \E c \in Cells : IsFinite(ret.val[c]) /\ ret.val[c][1] > 0
    /\ \E c \in Cells : ret.val[c] = NaN

\* C13: the raster remove_texture_noise returns has no finite value below
\* s0_min, for every s0_min and every input
C13_NoValueBelowMin ==
    (op.name = "remove_texture_noise" /\ err = "none") =>
        \A c \in Cells : IsFinite(ret.val[c]) => ret.val[c][1] >= op.s0_min

\* the object as a lookup under IPF 3.1 would see it
With31 == [s1 EXCEPT !.IPFversion = 310]

\* C14: on a product of IPF 3.2 every coefficient lookup uses the entries of
\* IPF 3.1, whichever operation triggers it and whatever was called before
C14_LooksUp31 ==
    (meta.ipf = 320 /\ err = "none") =>
        /\ op.name = "import_denoisingCoefficients" =>
              \A k \in calls : k[2][6] = 31
        /\ (op.name = "get_nesz_full_size" /\ op.algorithm = "NERSC") =>
              ret.val = get_nesz_full_size(filename, With31, meta, op.pol,
                                           "NERSC", op.shift, 0).val
        /\ (op.name = "remove_thermal_noise" /\ op.algorithm = "NERSC") =>
              ret.diff = remove_thermal_noise(filename, With31, meta, op.pol,
                             "NERSC", op.remove_negative, op.min_dn,
                             op.shift, 0).diff
        /\ (op.name = "remove_texture_noise" /\ op.algorithm = "NERSC") =>
              ret.val = remove_texture_noise(filename, With31, meta, op.pol,
                             op.window, op.weight, op.s0_min,
                             op.remove_negative, "NERSC", op.min_dn,
                             op.shift, 0).val

\* C15: the product is immutable after construction: remove_texture_noise
\* leaves the IPF version as constructed, so remove_thermal_noise returns
\* the same result whether or not remove_texture_noise was called before
C15_ProductImmutable ==
    /\ s1.IPFversion = meta.ipf
    /\ (op.name = "remove_thermal_noise" /\ err = "none") =>
          \E nanCast \in NanCasts(op.algorithm) :
             ret.diff = remove_thermal_noise(filename,
                            [s1 EXCEPT !.IPFversion = meta.ipf], meta, op.pol,
                            op.algorithm, op.remove_negative, op.min_dn,
                            op.shift, nanCast).diff

(***************************************************************************)
(* download_aux_calibration called on its own.  A behaviour of SpecAux is  *)
(* a sequence of calls, for products of any platform, over the directory   *)
(* of auxiliary data the calls share.                                      *)
(***************************************************************************)
DownloadAuxCalibration(fn, net) ==
    /\ \E d \in {download_aux_calibration(fn.platform, net, fs)} :
          /\ fs' = d.fs
          /\ err' = d.err
          /\ calls' = IF d.downloaded THEN {<<"requests.get">>} ELSE {}
    /\ filename' = fn
    /\ op' = [name |-> "download_aux_calibration", net |-> net]
    /\ UNCHANGED <<s1, printed, meta, ret>>

AuxFileNames ==
    [platform : Platforms, modeType : {<<"IW", "GRDH", "1SDH">>},
     start : {<<20170120, 0>>}]

InitAux ==
    /\ filename \in AuxFileNames
    /\ fs \in FsStates
    /\ s1 = NoObj /\ err = "none" /\ printed = {} /\ meta = NoMeta
    /\ op = NoOp /\ ret = NoRet /\ calls = {}

NextAux ==
    \E fn \in AuxFileNames : \E net \in NetFor(fn.platform) :
        DownloadAuxCalibration(fn, net)

SpecAux == InitAux /\ [][NextAux]_vars

\* C16: download_aux_calibration downloads nothing when the extracted
\* archive directory exists: it returns if the aux-cal file is there and
\* raises FileNotFoundError if not; without the directory it downloads and
\* extracts, and raises the same error if the file is absent afterwards
C16_NoDownloadWhenExtracted ==
    [][op'.name = "download_aux_calibration" =>
          /\ filename'.platform \in fs.dir =>
                /\ calls' = {} /\ fs' = fs
                /\ filename'.platform \in fs.file => err' = "none"
                /\ filename'.platform \notin fs.file => err' = "FileNotFoundError"
          /\ filename'.platform \notin fs.dir =>
                /\ calls' = {<<"requests.get">>}
                /\ op'.net \in {"ok_with_file", "ok_without_file"} =>
                      /\ filename'.platform \in fs'.dir
                      /\ err' = "FileNotFoundError" <=>
                            filename'.platform \notin fs'.file
                      /\ err' \in {"none", "FileNotFoundError"}]_vars

\* a call that found the directory without the file, raised and downloaded
\* nothing
C16_Witness ==
    /\ op.name = "download_aux_calibration"
    /\ err = "FileNotFoundError" /\ calls = {}
    /\ filename.platform \in fs.dir /\ filename.platform \notin fs.file

(***************************************************************************)
(* The per-swath loops, one swath iteration at a time.  A behaviour of     *)
(* SpecSwath starts one of the loops and runs its swath iterations in any  *)
(* order: op.seq lists the swaths done, ret.val is the output so far and   *)
(* ret.changed the cells the last iteration changed.                       *)
(***************************************************************************)
SwathLoops ==
    {"interp_nrv_full_size", "get_shifted_noise_vectors",
     "get_corrected_nesz_full_size"}

\* the blocks of one swath in the order of the annotation
SwathBlocks(sb, sw) ==
    [i \in 1 .. Len(sb[sw]) |-> [sw |-> sw, i |-> i, b |-> sb[sw][i]]]

\* the output before the first iteration
LoopStart(loop, m) ==
    IF loop = "interp_nrv_full_size" THEN InitialRaster
    ELSE IF loop = "get_shifted_noise_vectors"
    THEN [l \in Lines |-> [p \in Pixels |-> Fin(0)]]
    ELSE CopyOfArray(interp_nrv_full_size(m.sb, m.noise, 1).z_fs).val

\* the output after the iteration of swath sw
SwathIterationOf(loop, fn, obj, m, sw, shift, acc) ==
    IF loop = "interp_nrv_full_size"
    THEN InterpFrom(m.sb, SwathBlocks(m.sb, sw), 1, Array(m.noise), 1,
                    [z_fs |-> acc, writes |-> <<>>]).z_fs
    ELSE IF loop = "get_shifted_noise_vectors"
    THEN ShiftedFrom(SwathBlocks(m.sb, sw), 1, m.noise, shift, acc)
    ELSE CorrectFrom(SwathBlocks(m.sb, sw), 1,
            import_denoisingCoefficients(fn, obj, obj.crosspol, m.params).ns,
            import_denoisingCoefficients(fn, obj, obj.crosspol, m.params).pb,
            acc)

\* the places of an output: cells of a raster, (line, pixel) of the vectors
PlacesChanged(loop, old, new) ==
    IF loop = "get_shifted_noise_vectors"
    THEN { c \in Cells : old[c[1]][c[2]] # new[c[1]][c[2]] }
    ELSE { c \in Cells : old[c] # new[c] }

StartLoop(loop, shift) ==
    /\ s1 # NoObj /\ op = NoOp /\ meta.kind = "product"
    /\ shift \in (IF loop = "get_shifted_noise_vectors" THEN {-1, 0, 1} ELSE {0})
    /\ op' = [name |-> "swath_loop", loop |-> loop, shift |-> shift, seq |-> <<>>]
    /\ ret' = [kind |-> "partial", val |-> LoopStart(loop, meta), changed |-> {}]
    /\ calls' = {}
    /\ UNCHANGED <<filename, fs, s1, err, printed, meta>>

SwathIteration(sw) ==
    /\ op.name = "swath_loop"
    /\ sw \in 1 .. Len(meta.sb)
    /\ \A k \in 1 .. Len(op.seq) : op.seq[k] # sw
    /\ \E new \in {SwathIterationOf(op.loop, filename, s1, meta, sw, op.shift,
                                    ret.val)} :
          ret' = [kind |-> "partial", val |-> new,
                  changed |-> PlacesChanged(op.loop, ret.val, new)]
    /\ op' = [op EXCEPT !.seq = Append(@, sw)]
    /\ UNCHANGED <<filename, fs, s1, err, printed, meta, calls>>

InitSwath ==
    /\ filename \in PipeProducts
    /\ fs = [dir |-> {filename.platform}, file |-> {filename.platform}]
    /\ s1 = MakeObj(filename, filename.platform, 291)
    /\ err = "none"
    /\ printed = IPFMessages(s1.IPFversion)
    /\ \E sb \in Layouts(filename.modeType[1]) :
          meta = [kind |-> "product",
                  sb |-> sb,
                  order |-> Identity(Len(sb)),
                  noise |-> NoiseVectors,
                  cal |-> [l \in Lines |-> [p \in Pixels |-> Fin(2)]],
                  dn |-> DNRaster,
                  gtot |-> [l \in Lines |-> [p \in Pixels |-> 1 + ((l + p) % 3)]],
                  gain |-> [sw \in 1 .. Len(sb) |->
                               [l \in Lines |-> 1 + ((sw + l) % 2)]],
                  nav |-> [sw \in 1 .. Len(sb) |-> 1 + (sw % 2)],
                  params |-> FullTable]
    /\ op = NoOp /\ ret = NoRet /\ calls = {}

NextSwath ==
    \/ \E loop \in SwathLoops, shift \in {-1, 0, 1} : StartLoop(loop, shift)
    \/ \E sw \in 1 .. 5 : SwathIteration(sw)

SpecSwath == InitSwath /\ [][NextSwath]_vars

\* what the loop returns when the code runs it, swath 1 first
CodeOrderResult ==
    IF op.loop = "interp_nrv_full_size"
    THEN interp_nrv_full_size(meta.sb, meta.noise, 1).z_fs
    ELSE IF op.loop = "get_shifted_noise_vectors"
    THEN get_shifted_noise_vectors(meta.sb, meta.noise, op.shift)
    ELSE get_corrected_nesz_full_size(filename, s1, meta, s1.crosspol,
             interp_nrv_full_size(meta.sb, meta.noise, 1).z_fs).val

\* the cells of the blocks of swath sw
OwnCells(sw) ==
    { c \in Cells : \E i \in 1 .. Len(meta.sb[sw]) :
                        InBlock(meta.sb[sw][i], c[1], c[2]) }

\* C17: the swath iterations of get_shifted_noise_vectors,
\* get_corrected_nesz_full_size and interp_nrv_full_size are independent:
\* each writes only inside the blocks of its swath, and run in any order
\* they yield the output of the code's order
C17_SwathOrderIrrelevant ==
    (op.name = "swath_loop" /\ op.seq # <<>>) =>
        /\ ret.changed \subseteq OwnCells(op.seq[Len(op.seq)])
        /\ Len(op.seq) = Len(meta.sb) => ret.val = CodeOrderResult

\* a loop of five swaths run to its end with the last swath first and the
\* first swath last, whose last iteration changed cells
C17_Witness ==
    /\ op.name = "swath_loop" /\ op.loop = "get_corrected_nesz_full_size"
    /\ Len(op.seq) = 5 /\ op.seq[1] = 5 /\ op.seq[5] = 1
    /\ ret.changed # {}
    /\ ret.val = CodeOrderResult

(***************************************************************************)
(* The noise annotation as text, export_noise_xml and reading it back.     *)
(* A number of the XML text is its sign, its decimal digits and whether    *)
(* it is written with a decimal point; "nan" and "inf" are written as      *)
(* words.  A document is the name of its range vector elements, the name   *)
(* of their LUT element and, per vector line, the pixel and LUT texts.     *)
(***************************************************************************)
RECURSIVE DigitsOf(_)
DigitsOf(n) == IF n < 10 THEN <<n>> ELSE Append(DigitsOf(n \div 10), n % 10)

RECURSIVE ValueOfDigits(_)
ValueOfDigits(d) ==
    IF Len(d) = 0 THEN 0
    ELSE 10 * ValueOfDigits(SubSeq(d, 1, Len(d) - 1)) + d[Len(d)]

Magnitude(v) == IF v < 0 THEN -v ELSE v

\* f'{p}' of an integer pixel index
FormatInt(n) ==
    [word |-> "", neg |-> n < 0, digits |-> DigitsOf(Magnitude(n)), point |-> FALSE]

\* f'{p}' of a float: 16.0 is written '16.0'
FormatFloat(x) ==
    IF x = NaN THEN [word |-> "nan", neg |-> FALSE, digits |-> <<>>, point |-> FALSE]
    ELSE IF IsInf(x)
    THEN [word |-> "inf", neg |-> x[1] < 0, digits |-> <<>>, point |-> FALSE]
    ELSE [word |-> "", neg |-> x[1] < 0, digits |-> DigitsOf(Magnitude(x[1])),
          point |-> TRUE]

\* float(i)
ParseFloat(t) ==
    IF t.word = "nan" THEN NaN
    ELSE IF t.word = "inf" THEN Inf(IF t.neg THEN -1 ELSE 1)
    ELSE Fin(IF t.neg THEN -ValueOfDigits(t.digits) ELSE ValueOfDigits(t.digits))

\* int(i) accepts digits only
IntLiteral(t) == t.word = "" /\ ~t.point

ParseInt(t) == IF t.neg THEN -ValueOfDigits(t.digits) ELSE ValueOfDigits(t.digits)

\* the element names of the range noise vectors as the IPF wrote them
NoiseRangeVectorName(ipf) == IF ipf < 290 THEN "noiseVector" ELSE "noiseRangeVector"
NoiseLutName(ipf) == IF ipf < 290 THEN "noiseLut" ELSE "noiseRangeLut"

\* the noise annotation file of the product
NoiseDocument(ipf, noise) ==
    [vectorName |-> NoiseRangeVectorName(ipf),
     lutName |-> NoiseLutName(ipf),
     pixel |-> [l \in Lines |-> [p \in Pixels |-> FormatInt(p)]],
     lut |-> [l \in Lines |-> [p \in Pixels |-> FormatFloat(noise[l][p])]]]

\* noise_range(pol) of an object of version ipf over a document
noise_range(ipf, doc) ==
    IF doc.vectorName # NoiseRangeVectorName(ipf)
    THEN [err |-> "none", found |-> FALSE, pixel |-> <<>>, noise |-> <<>>]
    ELSE IF \E l \in Lines, p \in Pixels : ~IntLiteral(doc.pixel[l][p])
    THEN [err |-> "ValueError", found |-> TRUE, pixel |-> <<>>, noise |-> <<>>]
    ELSE [err |-> "none", found |-> TRUE,
          pixel |-> [l \in Lines |-> [p \in Pixels |-> ParseInt(doc.pixel[l][p])]],
          noise |-> [l \in Lines |-> [p \in Pixels |-> ParseFloat(doc.lut[l][p])]]]

\* get_corrected_noise_vectors: NaN where no block holds the pixel
RECURSIVE CorrectVectorsFrom(_, _, _, _, _, _)
CorrectVectorsFrom(bl, i, nesz, ns, pb, acc) ==
    IF i > Len(bl) THEN acc
    ELSE CorrectVectorsFrom(bl, i + 1, nesz, ns, pb,
            Array([l \in Lines |-> [p \in Pixels |->
                IF InBlock(bl[i].b, l, p)
                THEN Add(Mul(nesz[l][p], Fin(ns[bl[i].sw])), Fin(pb[bl[i].sw]))
                ELSE acc[l][p]]]))

CorrectVectorsWith(m, nesz, coef) ==
    CorrectVectorsFrom(BlockList(m.sb), 1, nesz, coef.ns, coef.pb,
                       [l \in Lines |-> [p \in Pixels |-> NaN]])

get_corrected_noise_vectors(fn, obj, m, pol, nesz) ==
    CorrectVectorsWith(m, nesz, import_denoisingCoefficients(fn, obj, pol, m.params))

\* noise_vec[np.isnan(noise_vec)] = 0
NanToZero(v) ==
    Array([l \in Lines |-> [p \in Pixels |-> IF v[l][p] = NaN THEN Fin(0) ELSE v[l][p]]])

\* the document export_noise_xml writes: the elements root.iter finds under
\* the name 'noiseRangeVector' get the new pixel and noiseRangeLut texts
WrittenDocument(doc, pixel, noise2) ==
    IF doc.vectorName = "noiseRangeVector"
    THEN [doc EXCEPT
            !.pixel = [l \in Lines |-> [p \in Pixels |-> FormatInt(pixel[l][p])]],
            !.lut = [l \in Lines |-> [p \in Pixels |->
                        FormatFloat(NanToZero(noise2)[l][p])]]]
    ELSE doc

ExportOf(doc, pixel, noise2) ==
    [written |-> WrittenDocument(doc, pixel, noise2), noise2 |-> noise2,
     pixel |-> pixel]

export_noise_xml(fn, obj, m, pol, shift) ==
    ExportOf(m.doc, noise_range(obj.IPFversion, m.doc).pixel,
             get_corrected_noise_vectors(fn, obj, m, pol,
                 get_shifted_noise_vectors(m.sb, m.noise, shift)))

ExportNoiseXml(pol, shift) ==
    /\ s1 # NoObj /\ op = NoOp /\ meta.kind = "product" /\ pol \in s1.pols
    /\ \E r \in {export_noise_xml(filename, s1, meta, pol, shift)} :
          /\ fs' = [fs EXCEPT !.out = r.written]
          /\ ret' = [kind |-> "path"]
          /\ op' = [name |-> "export_noise_xml", pol |-> pol, shift |-> shift,
                    noise2 |-> r.noise2, pixel |-> r.pixel]
    /\ err' = "none"
    /\ calls' = {<<"get_shifted_noise_vectors">>, <<"get_corrected_noise_vectors">>}
    /\ UNCHANGED <<filename, s1, printed, meta>>

\* noise_range of the product whose noise annotation is the exported file
ReadExported ==
    /\ op.name = "export_noise_xml"
    /\ \E r \in {noise_range(s1.IPFversion, fs.out)} :
          /\ ret' = [kind |-> "noise_range", pixel |-> r.pixel, noise |-> r.noise]
          /\ err' = r.err
    /\ op' = [op EXCEPT !.name = "noise_range"]
    /\ calls' = {}
    /\ UNCHANGED <<filename, fs, s1, printed, meta>>

ExportIPF == {272, 291, 310}

InitExport ==
    /\ filename \in PipeProducts
    /\ fs = [dir |-> {filename.platform}, file |-> {filename.platform},
             out |-> [vectorName |-> "none"]]
    /\ \E ipf \in ExportIPF : s1 = MakeObj(filename, filename.platform, ipf)
    /\ err = "none"
    /\ printed = IPFMessages(s1.IPFversion)
    /\ \E sb \in Layouts(filename.modeType[1]) :
          meta = [kind |-> "product",
                  sb |-> sb,
                  order |-> Identity(Len(sb)),
                  noise |-> noise_range(s1.IPFversion,
                                NoiseDocument(s1.IPFversion, NoiseVectors)).noise,
                  doc |-> NoiseDocument(s1.IPFversion, NoiseVectors),
                  params |-> FullTable]
    /\ op = NoOp /\ ret = NoRet /\ calls = {}

NextExport ==
    \/ \E pol \in {"HH", "HV", "VH", "VV"}, shift \in {-1, 0, 1} :
          ExportNoiseXml(pol, shift)
    \/ ReadExported

SpecExport == InitExport /\ [][NextExport]_vars

\* C18: reading back the file export_noise_xml wrote yields, for every range
\* noise vector and every supported IPF version, the pixel indices and the
\* noise values of the corrected vectors, NaN being written as 0
C18_ExportRoundTrip ==
    op.name = "noise_range" =>
        /\ err = "none"
        /\ ret.pixel = op.pixel
        /\ ret.noise = NanToZero(op.noise2)

(***************************************************************************)
(* orbitAtGivenTime.  meta.orbitTime holds the times of the orbit state    *)
(* vectors relative to time_coverage_center, in the order of the orbitList *)
(* of the annotation, which is chronological.  A call of                   *)
(* cubic_hermite_interpolation is kept as the term of its arguments.       *)
(***************************************************************************)
\* np.argsort(...)[:4]
NumNearest == 4

\* abs(orbitTime - t)
TimeDistance(orbitTime, i, t) == Magnitude(orbitTime[i] - t)

\* the sets np.argsort(abs(orbitTime-t))[:4] can hold: argsort leaves the
\* order of equal distances open
NearestSets(orbitTime, t) ==
    { S \in SUBSET (1 .. Len(orbitTime)) :
        /\ Cardinality(S) = (IF Len(orbitTime) < NumNearest THEN Len(orbitTime)
                             ELSE NumNearest)
        /\ \A i \in S : \A j \in (1 .. Len(orbitTime)) \ S :
              TimeDistance(orbitTime, i, t) <= TimeDistance(orbitTime, j, t) }

\* a set of indices, largest first
RECURSIVE useIndices_descending(_)
useIndices_descending(S) ==
    IF S = {} THEN <<>>
    ELSE <<SetMax(S)>> \o useIndices_descending(S \ {SetMax(S)})

\* sorted(...) of the indices
RECURSIVE useIndices(_)
useIndices(S) ==
    IF S = {} THEN <<>> ELSE <<SetMin(S)>> \o useIndices(S \ {SetMin(S)})

\* array[useIndices]
TakeIndices(a, idx) == [k \in 1 .. Len(idx) |-> a[idx[k]]]

\* the call cubic_hermite_interpolation(x, y, t) of s1denoise.utils
cubic_hermite_interpolation(x, y, t) ==
    [f |-> "cubic_hermite_interpolation", x |-> x, y |-> y, t |-> t]

OrbitComponents == {"x", "y", "z"}

\* the three interpolations of one of position and velocity at time t
InterpolatedXYZ(orbit, k, idx, t) ==
    [component \in OrbitComponents |->
        cubic_hermite_interpolation(TakeIndices(orbit.time, idx),
                                    TakeIndices(orbit[k][component], idx), t)]

\* np.squeeze: a list of one row becomes the row
Squeeze(rows) == IF Len(rows) = 1 THEN rows[1] ELSE rows

orbitAtGivenTime(orbit, relativeAzimuthTime, sel) ==
    [relativeAzimuthTime |-> relativeAzimuthTime,
     positionXYZ |-> Squeeze([n \in 1 .. Len(relativeAzimuthTime) |->
                        InterpolatedXYZ(orbit, "position", useIndices(sel[n]),
                                        relativeAzimuthTime[n])]),
     velocityXYZ |-> Squeeze([n \in 1 .. Len(relativeAzimuthTime) |->
                        InterpolatedXYZ(orbit, "velocity", useIndices(sel[n]),
                                        relativeAzimuthTime[n])]),
     interpolations |->
        { InterpolatedXYZ(orbit, k, useIndices(sel[n]),
                          relativeAzimuthTime[n])[component] :
            n \in 1 .. Len(relativeAzimuthTime), k \in {"position", "velocity"},
            component \in OrbitComponents }]

OrbitAtGivenTime(relativeAzimuthTime) ==
    /\ op = NoOp /\ meta.kind = "orbit"
    /\ \E sel \in [1 .. Len(relativeAzimuthTime) ->
                      SUBSET (1 .. Len(meta.orbit.time))] :
          /\ \A n \in 1 .. Len(relativeAzimuthTime) :
                sel[n] \in NearestSets(meta.orbit.time, relativeAzimuthTime[n])
          /\ \E r \in {orbitAtGivenTime(meta.orbit, relativeAzimuthTime, sel)} :
                /\ ret' = [kind |-> "orbitAtGivenTime",
                           relativeAzimuthTime |-> r.relativeAzimuthTime,
                           positionXYZ |-> r.positionXYZ,
                           velocityXYZ |-> r.velocityXYZ]
                /\ calls' = r.interpolations
    /\ op' = [name |-> "orbitAtGivenTime",
              relativeAzimuthTime |-> relativeAzimuthTime]
    /\ err' = "none"
    /\ UNCHANGED <<filename, fs, s1, printed, meta>>

\* the times an orbitList may hold, in seconds from time_coverage_center
OrbitGrid == {-3, -1, 0, 1, 3, 5}

\* the times S in the order of the orbitList: earliest first
RECURSIVE Chronological(_)
Chronological(S) ==
    IF S = {} THEN <<>>
    ELSE Append(Chronological(S \ {SetMax(S)}), SetMax(S))

\* import_orbit of an orbitList holding the times S
OrbitOf(S) ==
    [time |-> Chronological(S),
     position |-> [c \in OrbitComponents |->
                      [i \in 1 .. Cardinality(S) |-> 7000 + 3 * Chronological(S)[i]]],
     velocity |-> [c \in OrbitComponents |->
                      [i \in 1 .. Cardinality(S) |-> 70 - Chronological(S)[i]]]]

AzimuthTimes == {-4, 0, 2, 6}

AzimuthTimeVectors ==
    { <<t>> : t \in AzimuthTimes } \cup { <<t, u>> : t \in AzimuthTimes, u \in {0, 2} }

InitOrbit ==
    /\ filename \in { f \in PipeProducts : f.platform = "S1A" }
    /\ fs = [dir |-> {filename.platform}, file |-> {filename.platform}]
    /\ s1 = MakeObj(filename, filename.platform, 291)
    /\ err = "none"
    /\ printed = IPFMessages(s1.IPFversion)
    /\ \E S \in SUBSET OrbitGrid :
          /\ S # {}
          /\ meta = [kind |-> "orbit", orbit |-> OrbitOf(S)]
    /\ op = NoOp /\ ret = NoRet /\ calls = {}

NextOrbit == \E ts \in AzimuthTimeVectors : OrbitAtGivenTime(ts)

SpecOrbit == InitOrbit /\ [][NextOrbit]_vars

\* the state vectors of the orbit at the times x
VectorsAt(x) == { i \in 1 .. Len(meta.orbit.time) :
                     \E k \in 1 .. Len(x) : x[k] = meta.orbit.time[i] }

\* C19: orbitAtGivenTime interpolates from the 4 orbit state vectors whose
\* time is nearest to t by absolute difference (from all of them when there
\* are fewer than 4) and hands them to the cubic Hermite interpolation in
\* ascending order of time
C19_FourNearestAscending ==
    op.name = "orbitAtGivenTime" =>
        /\ \A n \in 1 .. Len(op.relativeAzimuthTime) :
              \E c \in calls : c.t = op.relativeAzimuthTime[n]
        /\ \A c \in calls :
              /\ Len(c.x) = (IF Len(meta.orbit.time) < 4
                             THEN Len(meta.orbit.time) ELSE 4)
              /\ \A k \in 1 .. (Len(c.x) - 1) : c.x[k] < c.x[k + 1]
              /\ Cardinality(VectorsAt(c.x)) = Len(c.x)
              /\ \A i \in VectorsAt(c.x) :
                    \A j \in (1 .. Len(meta.orbit.time)) \ VectorsAt(c.x) :
                       Magnitude(meta.orbit.time[i] - c.t)
                          <= Magnitude(meta.orbit.time[j] - c.t)
              /\ \E k \in {"position", "velocity"}, comp \in OrbitComponents :
                    \A m \in 1 .. Len(c.x) :
                       \E i \in VectorsAt(c.x) :
                          /\ meta.orbit.time[i] = c.x[m]
                          /\ meta.orbit[k][comp][i] = c.y[m]

\* a call on an orbit of six state vectors for two times: the later has the
\* last four vectors nearest, the earlier has its fourth and fifth nearest
\* vectors at the same distance and got the earlier of the two
C19_Witness ==
    /\ op.name = "orbitAtGivenTime"
    /\ Len(meta.orbit.time) = 6
    /\ op.relativeAzimuthTime = <<6, 2>>
    /\ \E c \in calls : c.t = 6 /\ c.x = <<0, 1, 3, 5>>
    /\ \E c \in calls : c.t = 2 /\ c.x = <<-1, 0, 1, 3>>

(***************************************************************************)
(* scalloping_gain.  Times are whole numbers of a quarter of the time      *)
(* unit, the times of the annotation and the burst length being multiples  *)
(* of 4, so the halves the code takes are exact.  meta.azimuthTime is the  *)
(* azimuth time of the image lines along the centre of the subswath,       *)
(* meta.burstStart the antenna pattern times of the subswath, meta.rate    *)
(* the factor RADAR_WAVELENGTH / (2 * satelliteVelocity) *                 *)
(* combinedDopplerRate of each line.                                       *)
(***************************************************************************)
\* burstOverlap = fullBurstLength - np.diff(burstStartTime), the first
\* overlap taken twice; burstStartTime += burstOverlap / 2.
CorrectedStarts(raw, full) ==
    [i \in 1 .. Len(raw) |->
        raw[i] + (full - (IF i = 1 THEN raw[2] - raw[1]
                          ELSE raw[i] - raw[i - 1])) \div 2]

\* while burstStartTime[0] > azimuthTime[0]: one more start in front
RECURSIVE ExtendBefore(_, _)
ExtendBefore(starts, first) ==
    IF starts[1] > first
    THEN ExtendBefore(<<starts[1] - (starts[2] - starts[1])>> \o starts, first)
    ELSE starts

\* while burstStartTime[-1] < azimuthTime[-1]: one more start behind
RECURSIVE ExtendAfter(_, _)
ExtendAfter(starts, last) ==
    IF starts[Len(starts)] < last
    THEN ExtendAfter(Append(starts, starts[Len(starts)]
                              + (starts[Len(starts)] - starts[Len(starts) - 1])),
                     last)
    ELSE starts

ExtendedStarts(raw, full, azimuthTime) ==
    ExtendAfter(ExtendBefore(CorrectedStarts(raw, full), azimuthTime[0]),
                azimuthTime[MaxLine])

\* for li in range(len(burstStartTime)-1):
\*     burstTime[valid] -= (burstStartTime[li] + burstStartTime[li+1]) / 2.
RECURSIVE BurstTimeFrom(_, _, _, _)
BurstTimeFrom(starts, azimuthTime, li, burstTime) ==
    IF li > Len(starts) - 1 THEN burstTime
    ELSE BurstTimeFrom(starts, azimuthTime, li + 1,
            [l \in Lines |->
                IF azimuthTime[l] >= starts[li] /\ azimuthTime[l] < starts[li + 1]
                THEN burstTime[l] - (starts[li] + starts[li + 1]) \div 2
                ELSE burstTime[l]])

\* angleAAEP = np.arange(-(len(gainAAEP)//2), len(gainAAEP)//2+1) * increment
AngleAAEP(gainAAEP, increment) ==
    [i \in 1 .. (2 * (Len(gainAAEP) \div 2) + 1) |->
        (i - 1 - Len(gainAAEP) \div 2) * increment]

\* np.interp(x, xp, fp): the end values outside xp, the chord inside
Interp(x, xp, fp) ==
    IF x <= xp[1] THEN fp[1]
    ELSE IF x >= xp[Len(xp)] THEN fp[Len(xp)]
    ELSE LET i == CHOOSE k \in 1 .. (Len(xp) - 1) : xp[k] <= x /\ x < xp[k + 1]
         IN  fp[i] + ((x - xp[i]) * (fp[i + 1] - fp[i])) \div (xp[i + 1] - xp[i])

\* 1. / 10**(burstAAEP/10.), kept as the term of its argument
GainOfAAEP(burstAAEP) == [f |-> "1/10**(x/10)", x |-> burstAAEP]

ScallopingOf(m, starts, burstTime) ==
    [burstStartTime |-> starts,
     burstTime |-> burstTime,
     scallopingGain |->
        [l \in Lines |->
            GainOfAAEP(Interp(m.rate[l] * burstTime[l],
                              AngleAAEP(m.gainAAEP, m.increment), m.gainAAEP))]]

ScallopingFrom(m, starts) ==
    ScallopingOf(m, starts, BurstTimeFrom(starts, m.azimuthTime, 1, m.azimuthTime))

scalloping_gain(m) ==
    ScallopingFrom(m, ExtendedStarts(m.burstStart, m.fullBurstLength, m.azimuthTime))

ScallopingGain ==
    /\ op = NoOp /\ meta.kind = "bursts"
    /\ \E r \in {scalloping_gain(meta)} :
          ret' = [kind |-> "scalloping_gain", val |-> r.scallopingGain,
                  burstStartTime |-> r.burstStartTime, burstTime |-> r.burstTime]
    /\ op' = [name |-> "scalloping_gain"]
    /\ err' = "none"
    /\ calls' = {<<"focusedBurstLengthInTime">>, <<"orbitAtGivenTime">>}
    /\ UNCHANGED <<filename, fs, s1, printed, meta>>

\* antenna pattern times of two or three bursts, 8 or 12 apart
BurstStartLists ==
    { <<0, d>> : d \in {8, 12} } \cup { <<0, d, d + e>> : d \in {8, 12}, e \in {8, 12} }

InitScalloping ==
    /\ filename \in { f \in PipeProducts : f.platform = "S1A" }
    /\ fs = [dir |-> {filename.platform}, file |-> {filename.platform}]
    /\ s1 = MakeObj(filename, filename.platform, 272)
    /\ err = "none"
    /\ printed = IPFMessages(s1.IPFversion)
    /\ \E raw \in BurstStartLists, full \in {12, 16}, first \in -14 .. 20,
          step \in {3, 10, 26} :
          meta = [kind |-> "bursts",
                  burstStart |-> raw,
                  fullBurstLength |-> full,
                  azimuthTime |-> [l \in Lines |-> first + l * step],
                  rate |-> [l \in Lines |-> 1 + l],
                  gainAAEP |-> <<-12, -3, 0, -3, -12>>,
                  increment |-> 8]
    /\ op = NoOp /\ ret = NoRet /\ calls = {}

NextScalloping == ScallopingGain

SpecScalloping == InitScalloping /\ [][NextScalloping]_vars

\* the burst intervals [start_i, start_i+1) that hold the azimuth time of line l
IntervalsOf(l) ==
    { i \in 1 .. (Len(ret.burstStartTime) - 1) :
        /\ ret.burstStartTime[i] <= meta.azimuthTime[l]
        /\ meta.azimuthTime[l] < ret.burstStartTime[i + 1] }

\* C20: after the burst start times are extended every image line, the first
\* and the last included, falls into exactly one burst interval
\* [start_i, start_i+1); its burst time is its azimuth time minus the
\* midpoint of that interval, so at most half the interval length in size
C20_EveryLineInOneBurst ==
    op.name = "scalloping_gain" =>
        \A l \in Lines :
           /\ Cardinality(IntervalsOf(l)) = 1
           /\ \A i \in IntervalsOf(l) :
                 /\ ret.burstTime[l] = meta.azimuthTime[l]
                       - (ret.burstStartTime[i] + ret.burstStartTime[i + 1]) \div 2
                 /\ 2 * Magnitude(ret.burstTime[l])
                       <= ret.burstStartTime[i + 1] - ret.burstStartTime[i]

(***************************************************************************)
(* The two extension loops of scalloping_gain, one iteration at a step.    *)
(* op.pc is the loop the call is in, ret.burstStartTime the array so far.  *)
(* The loops are straight-line code of one thread, so a step that is       *)
(* enabled is taken: SpecExtension is weakly fair.                         *)
(***************************************************************************)
\* the most burst starts a call of the model holds
MaxStarts == 16

\* the array with its first element repeated in front
Prepended_same(starts) == <<starts[1]>> \o starts

\* np.hstack([burstStartTime[0] - np.diff(burstStartTime)[0], burstStartTime])
Prepended(starts) == <<starts[1] - (starts[2] - starts[1])>> \o starts

\* np.hstack([burstStartTime, burstStartTime[-1] + np.diff(burstStartTime)[-1]])
Appended(starts) ==
    Append(starts, starts[Len(starts)]
                     + (starts[Len(starts)] - starts[Len(starts) - 1]))

BeginExtension ==
    /\ op = NoOp /\ meta.kind = "bursts"
    /\ op' = [name |-> "scalloping_gain", pc |-> "before"]
    /\ ret' = [kind |-> "burstStartTime",
               burstStartTime |-> CorrectedStarts(meta.burstStart,
                                                  meta.fullBurstLength)]
    /\ UNCHANGED <<filename, fs, s1, err, printed, meta, calls>>

\* an iteration of while burstStartTime[0] > azimuthTime[0]
PrependStart ==
    /\ op.name = "scalloping_gain" /\ op.pc = "before"
    /\ ret.burstStartTime[1] > meta.azimuthTime[0]
    /\ Len(ret.burstStartTime) < MaxStarts
    /\ ret' = [ret EXCEPT !.burstStartTime = Prepended(@)]
    /\ UNCHANGED <<filename, fs, s1, err, printed, meta, calls, op>>

\* the first loop ends
EndPrepend ==
    /\ op.name = "scalloping_gain" /\ op.pc = "before"
    /\ ~(ret.burstStartTime[1] > meta.azimuthTime[0])
    /\ op' = [op EXCEPT !.pc = "after"]
    /\ UNCHANGED <<filename, fs, s1, err, printed, meta, calls, ret>>

\* an iteration of while burstStartTime[-1] < azimuthTime[-1]
AppendStart ==
    /\ op.name = "scalloping_gain" /\ op.pc = "after"
    /\ ret.burstStartTime[Len(ret.burstStartTime)] < meta.azimuthTime[MaxLine]
    /\ Len(ret.burstStartTime) < MaxStarts
    /\ ret' = [ret EXCEPT !.burstStartTime = Appended(@)]
    /\ UNCHANGED <<filename, fs, s1, err, printed, meta, calls, op>>

\* the second loop ends
EndAppend ==
    /\ op.name = "scalloping_gain" /\ op.pc = "after"
    /\ ~(ret.burstStartTime[Len(ret.burstStartTime)] < meta.azimuthTime[MaxLine])
    /\ op' = [op EXCEPT !.pc = "extended"]
    /\ UNCHANGED <<filename, fs, s1, err, printed, meta, calls, ret>>

NextExtension ==
    \/ BeginExtension
    \/ PrependStart
    \/ EndPrepend
    \/ AppendStart
    \/ EndAppend

SpecExtension ==
    InitScalloping /\ [][NextExtension]_vars /\ WF_vars(NextExtension)

\* C21: with two or more antenna pattern times in increasing order the two
\* extension loops of scalloping_gain terminate, and on exit the first burst
\* start is <= the azimuth time of the first line and the last burst start
\* is >= the azimuth time of the last line
C21_ExtensionTerminates ==
    /\ <>(op.name = "scalloping_gain" /\ op.pc = "extended")
    /\ [](op.name = "scalloping_gain" /\ op.pc = "extended" =>
            /\ ret.burstStartTime[1] <= meta.azimuthTime[0]
            /\ ret.burstStartTime[Len(ret.burstStartTime)]
                  >= meta.azimuthTime[MaxLine]
            /\ ret.burstStartTime
                  = ExtendedStarts(meta.burstStart, meta.fullBurstLength,
                                   meta.azimuthTime))

\* a call that left both loops after each had added burst starts
C21_Witness ==
    /\ op.name = "scalloping_gain" /\ op.pc = "extended"
    /\ Len(ret.burstStartTime) >= Len(meta.burstStart) + 3
    /\ ret.burstStartTime[1]
          < CorrectedStarts(meta.burstStart, meta.fullBurstLength)[1]
    /\ ret.burstStartTime[Len(ret.burstStartTime)]
          > CorrectedStarts(meta.burstStart,
                            meta.fullBurstLength)[Len(meta.burstStart)]

(***************************************************************************)
(* The geometry of the swath blocks: subswathCenterSampleIndex,            *)
(* subswathIndexMap and get_swath_id_vectors over more block layouts and   *)
(* over every order of the swathMerge records.                             *)
(***************************************************************************)
RECURSIVE SumOfBlocks(_, _, _)
\* np.sum over the blocks of a swath of f(block), f being "lines" for
\* numberOfLines and "mid2lines" for twice midPixelIndices * numberOfLines
SumOfBlocks(blocks, i, f) ==
    IF i > Len(blocks) THEN 0
    ELSE (IF f = "lines" THEN blocks[i].lal - blocks[i].fal + 1
          ELSE (blocks[i].frs + blocks[i].lrs)
                  * (blocks[i].lal - blocks[i].fal + 1))
         + SumOfBlocks(blocks, i + 1, f)

\* int(num / den) without the round
RoundOf_truncated(num, den) == num \div den

\* int(round(num / den)) for den > 0: Python rounds a tie to the even integer
RoundOf(num, den) ==
    IF 2 * (num % den) < den THEN num \div den
    ELSE IF 2 * (num % den) > den THEN num \div den + 1
    ELSE IF (num \div den) % 2 = 0 THEN num \div den
    ELSE num \div den + 1

subswathCenterSampleIndex(sb) ==
    [sw \in 1 .. Len(sb) |->
        RoundOf(SumOfBlocks(sb[sw], 1, "mid2lines"),
                2 * SumOfBlocks(sb[sw], 1, "lines"))]

SubswathCenterSampleIndex ==
    /\ op = NoOp /\ meta.kind = "product"
    /\ ret' = [kind |-> "subswathCenterSampleIndex",
               val |-> subswathCenterSampleIndex(meta.sb)]
    /\ op' = [name |-> "subswathCenterSampleIndex"]
    /\ err' = "none"
    /\ calls' = {<<"swath_bounds">>}
    /\ UNCHANGED <<filename, fs, s1, printed, meta>>

\* kx and ky of RectBivariateSpline(x, y, z) when the call names neither
SplineDegree == 3

\* RectBivariateSpline(x, y, z): the axes and the degrees of the spline
RectBivariateSpline(x, y) ==
    [x |-> x, y |-> y, kx |-> SplineDegree, ky |-> SplineDegree]

\* swath_lines of get_swath_interpolator: for every block of the swath the
\* lines of the vectors inside it
RECURSIVE SwathLinesFrom(_, _)
SwathLinesFrom(blocks, i) ==
    IF i > Len(blocks) THEN <<>>
    ELSE [k \in 1 .. (blocks[i].lal - blocks[i].fal + 1) |-> blocks[i].fal + k - 1]
         \o SwathLinesFrom(blocks, i + 1)

\* z_interp2 of get_swath_interpolator, over swath_lines and pix_vec_fr
get_swath_interpolator(sb, sw) ==
    RectBivariateSpline(SwathLinesFrom(sb[sw], 1),
        [k \in 1 .. (SetMax({ sb[sw][i].lrs : i \in 1 .. Len(sb[sw]) })
                     - SetMin({ sb[sw][i].frs : i \in 1 .. Len(sb[sw]) }) + 1) |->
            SetMin({ sb[sw][i].frs : i \in 1 .. Len(sb[sw]) }) + k - 1])

\* geolocation_interpolator over the geolocation grid: its first and last
\* line and pixel
geolocation_interpolator(grid) == RectBivariateSpline(grid.line, grid.pixel)

GetSwathInterpolator(pol, sw) ==
    /\ op = NoOp /\ meta.kind = "product" /\ pol \in s1.pols
    /\ sw \in 1 .. Len(meta.sb)
    /\ ret' = [kind |-> "spline", val |-> get_swath_interpolator(meta.sb, sw)]
    /\ op' = [name |-> "get_swath_interpolator", pol |-> pol, sw |-> sw]
    /\ err' = "none"
    /\ calls' = {<<"swath_bounds">>, <<"RectBivariateSpline">>}
    /\ UNCHANGED <<filename, fs, s1, printed, meta>>

GeolocationInterpolator(pol) ==
    /\ op = NoOp /\ meta.kind = "product" /\ pol \in s1.pols
    /\ ret' = [kind |-> "spline",
               val |-> geolocation_interpolator(
                          [line |-> <<0, MaxLine>>, pixel |-> <<0, MaxPixel>>])]
    /\ op' = [name |-> "geolocation_interpolator", pol |-> pol]
    /\ err' = "none"
    /\ calls' = {<<"geolocation">>, <<"RectBivariateSpline">>}
    /\ UNCHANGED <<filename, fs, s1, printed, meta>>

GetSwathIdVectors(pol) ==
    /\ op = NoOp /\ meta.kind = "product" /\ pol \in s1.pols
    /\ ret' = [kind |-> "vectors",
               val |-> get_swath_id_vectors(meta.sb, meta.order)]
    /\ op' = [name |-> "get_swath_id_vectors", pol |-> pol]
    /\ err' = "none"
    /\ calls' = {<<"noise_range">>, <<"swath_bounds">>}
    /\ UNCHANGED <<filename, fs, s1, printed, meta>>

\* layouts of three swaths whose borders differ from line to line
BorderLayouts ==
    { << <<Block(0, 0, 0, a[1]), Block(1, 1, 0, a[2])>>,
         <<Block(0, 0, a[1] + 1, b[1]), Block(1, 1, a[2] + 1, b[2])>>,
         <<Block(0, 0, b[1] + 1, 13), Block(1, 1, b[2] + 1, 12)>> >> :
        a \in {3, 4, 8} \X {3, 4, 8}, b \in {9, 10, 11} \X {9, 10, 11} }

GeometryLayouts(obsMode) ==
    IF obsMode = "IW" THEN Layouts("IW") \cup BorderLayouts ELSE Layouts("EW")

\* the orders the swathMerge records of n swaths can have in the annotation
RecordOrders(n) ==
    { o \in [1 .. n -> 1 .. n] :
        /\ \A i, j \in 1 .. n : i # j => o[i] # o[j]
        /\ n > 3 => o \in { [k \in 1 .. n |-> k], [k \in 1 .. n |-> n + 1 - k],
                            [k \in 1 .. n |-> 1 + ((k + 1) % n)] } }

InitGeometry ==
    /\ filename \in PipeProducts
    /\ fs = [dir |-> {filename.platform}, file |-> {filename.platform}]
    /\ s1 = MakeObj(filename, filename.platform, 291)
    /\ err = "none"
    /\ printed = IPFMessages(s1.IPFversion)
    /\ \E sb \in GeometryLayouts(filename.modeType[1]) :
       \E order \in RecordOrders(Len(sb)) :
          meta = [kind |-> "product", sb |-> sb, order |-> order]
    /\ op = NoOp /\ ret = NoRet /\ calls = {}

NextGeometry ==
    \/ SubswathCenterSampleIndex
    \/ \E pol \in {"HH", "HV", "VH", "VV"}, sw \in 1 .. 5 :
          GetSwathInterpolator(pol, sw)
    \/ \E pol \in {"HH", "HV", "VH", "VV"} : GeolocationInterpolator(pol)
    \/ \E pol \in {"HH", "HV", "VH", "VV"} : GetSwathIdVectors(pol)

SpecGeometry == InitGeometry /\ [][NextGeometry]_vars

\* C22: subswathCenterSampleIndex returns for each subswath the rounded
\* line-weighted mean of the block midpoints, a value between the smallest
\* firstRangeSample and the largest lastRangeSample of the subswath
C22_CenterIsRoundedMean ==
    op.name = "subswathCenterSampleIndex" =>
        \A sw \in 1 .. Len(meta.sb) :
           \E lines \in {SumOfBlocks(meta.sb[sw], 1, "lines")} :
           \E mid2 \in {SumOfBlocks(meta.sb[sw], 1, "mid2lines")} :
              /\ lines > 0
              /\ 2 * lines * ret.val[sw] - mid2 <= lines
              /\ mid2 - 2 * lines * ret.val[sw] <= lines
              /\ \A i \in 1 .. Len(meta.sb[sw]) :
                    \E j, k \in 1 .. Len(meta.sb[sw]) :
                       /\ meta.sb[sw][j].frs <= ret.val[sw]
                       /\ ret.val[sw] <= meta.sb[sw][k].lrs

\* a call on a layout where the mean of a swath is 2.75 (rounded up to 3)
\* and the mean of another is a tie (8.5, rounded to the even 8)
C22_Witness ==
    /\ op.name = "subswathCenterSampleIndex"
    /\ Len(meta.sb) = 3
    /\ SumOfBlocks(meta.sb[1], 1, "mid2lines") = 11 /\ ret.val[1] = 3
    /\ SumOfBlocks(meta.sb[2], 1, "mid2lines") = 34 /\ ret.val[2] = 8

(***************************************************************************)
(* get_shifted_noise_vectors on noise vectors whose pixel arrays may hold  *)
(* a pixel twice and whose values may be non-finite.  pixel[l][e] and      *)
(* noise[l][e] are element e of the vector at line l.                      *)
(***************************************************************************)
\* valid2 of a block and a vector: the elements inside the block whose noise
\* is finite
Valid2(b, pix, nz) ==
    { e \in Pixels : b.frs <= pix[e] /\ pix[e] <= b.lrs /\ IsFinite(nz[e]) }

\* valid2.size > min_valid_size
Qualifies_strict(valid2) == Cardinality(valid2) > MinValidSize

\* valid2.size >= min_valid_size
Qualifies(valid2) == Cardinality(valid2) >= MinValidSize

\* valid2[valid_pix_i] of np.unique(..., return_index=True): of the elements
\* with the same pixel the first one
UniqueValid2(valid2, pix) ==
    { e \in valid2 : \A d \in valid2 : pix[d] = pix[e] => d >= e }

\* np.allclose(noise_valid, noise_valid[0]) on the values of the model
AllClose(uniq, nz) == \A e \in uniq : nz[e] = nz[SetMin(uniq)]

\* noise_valid over valid_pix: the value at the pixel q of the kept elements
NoiseAtPixel(uniq, pix, nz) ==
    [q \in Pixels |-> IF \E e \in uniq : pix[e] = q
                      THEN nz[CHOOSE e \in uniq : pix[e] = q] ELSE NaN]

\* the vector noise_shifted[v1] after the pass of block b over it
ShiftedVector(b, l, pix, nz, shift, acc) ==
    IF b.fal <= l /\ l <= b.lal /\ Qualifies(Valid2(b, pix, nz))
    THEN [e \in Pixels |->
            IF e \notin UniqueValid2(Valid2(b, pix, nz), pix) THEN acc[e]
            ELSE IF AllClose(UniqueValid2(Valid2(b, pix, nz), pix), nz)
            THEN nz[e]
            ELSE SplineAt(NoiseAtPixel(UniqueValid2(Valid2(b, pix, nz), pix),
                                       pix, nz),
                          { pix[d] : d \in UniqueValid2(Valid2(b, pix, nz), pix) },
                          pix[e] + shift)]
    ELSE acc

\* [np.array(n) for n in noise]
InitialShifted_raw(noise) == noise

\* [np.zeros(p.size) for p in pixel]
InitialShifted(noise) == [l \in Lines |-> [e \in Pixels |-> Fin(0)]]

\* the loops over the swaths, their blocks and the vectors: val is
\* noise_shifted, processed the (swath, block, vector) triples that entered
\* the body of the size test, minimized those for which minimize was called
RECURSIVE ShiftedVectorsFrom(_, _, _, _, _, _)
ShiftedVectorsFrom(bl, i, pixel, noise, shift, acc) ==
    IF i > Len(bl) THEN acc
    ELSE ShiftedVectorsFrom(bl, i + 1, pixel, noise, shift,
            [val |-> Array([l \in Lines |->
                        ShiftedVector(bl[i].b, l, pixel[l], noise[l], shift,
                                      acc.val[l])]),
             processed |-> acc.processed \cup
                { <<bl[i].sw, bl[i].i, l>> : l \in
                    { v \in Lines :
                        /\ bl[i].b.fal <= v /\ v <= bl[i].b.lal
                        /\ Qualifies(Valid2(bl[i].b, pixel[v], noise[v])) } },
             minimized |-> acc.minimized \cup
                { <<bl[i].sw, bl[i].i, l>> : l \in
                    { v \in Lines :
                        /\ bl[i].b.fal <= v /\ v <= bl[i].b.lal
                        /\ Qualifies(Valid2(bl[i].b, pixel[v], noise[v]))
                        /\ ~AllClose(UniqueValid2(
                                Valid2(bl[i].b, pixel[v], noise[v]), pixel[v]),
                              noise[v]) } }])

ShiftedNoiseVectors(sb, pixel, noise, shift) ==
    ShiftedVectorsFrom(BlockList(sb), 1, pixel, noise, shift,
        [val |-> InitialShifted(noise), processed |-> {}, minimized |-> {}])

GetShiftedNoiseVectors(pol, shift) ==
    /\ op = NoOp /\ meta.kind = "vectors" /\ pol \in s1.pols
    /\ \E r \in {ShiftedNoiseVectors(meta.sb, meta.pixel, meta.noise, shift)} :
          /\ ret' = [kind |-> "vectors", val |-> r.val,
                     processed |-> r.processed, minimized |-> r.minimized]
          /\ calls' = {<<"noise_range">>, <<"swath_bounds">>}
                        \cup (IF r.minimized = {} THEN {} ELSE {<<"minimize">>})
    /\ op' = [name |-> "get_shifted_noise_vectors", pol |-> pol]
    /\ err' = "none"
    /\ UNCHANGED <<filename, fs, s1, printed, meta>>

\* the pixel arrays of a vector: every pixel once, or one pixel twice
PixelArrays ==
    { [e \in Pixels |-> e], [e \in Pixels |-> IF e <= 4 THEN e ELSE e - 1] }

\* the values of a vector: flat or sloped, all finite or with a NaN or an
\* infinity inside the first swath or a NaN behind it
NoiseArrays ==
    { [e \in Pixels |-> Fin(16)],
      [e \in Pixels |-> IF e = 3 THEN NaN ELSE Fin(16)],
      [e \in Pixels |-> IF e = 12 THEN NaN ELSE Fin(16)],
      [e \in Pixels |-> Fin(16 + 4 * e)],
      [e \in Pixels |-> IF e = 2 THEN Inf(1) ELSE Fin(16 + 4 * e)] }

InitShift ==
    /\ filename \in PipeProducts
    /\ fs = [dir |-> {filename.platform}, file |-> {filename.platform}]
    /\ s1 = MakeObj(filename, filename.platform, 291)
    /\ err = "none"
    /\ printed = IPFMessages(s1.IPFversion)
    /\ \E sb \in Layouts(filename.modeType[1]) :
       \E pix \in PixelArrays :
       \E noise \in [Lines -> NoiseArrays] :
          meta = [kind |-> "vectors", sb |-> sb,
                  pixel |-> [l \in Lines |-> pix], noise |-> noise]
    /\ op = NoOp /\ ret = NoRet /\ calls = {}

NextShift ==
    \/ \E pol \in {"HH", "HV", "VH", "VV"}, shift \in {-1, 0, 1} :
          GetShiftedNoiseVectors(pol, shift)

SpecShift == InitShift /\ [][NextShift]_vars

\* the number of elements of vector l inside block b with a finite noise
FiniteInBlock(b, l) ==
    Cardinality({ e \in Pixels : /\ InBlock(b, l, meta.pixel[l][e])
                                 /\ meta.noise[l][e] # NaN
                                 /\ ~IsInf(meta.noise[l][e]) })

\* C23: get_shifted_noise_vectors processes a (block, vector) pair exactly
\* when the vector has at least min_valid_size finite pixels inside the
\* block; when the noise of such a pair is the same everywhere, the output at
\* those pixels is the input noise and no shift is estimated
C23_ProcessedIffEnoughFinite ==
    op.name = "get_shifted_noise_vectors" =>
        \A sw \in 1 .. Len(meta.sb) : \A i \in 1 .. Len(meta.sb[sw]) :
        \A l \in Lines :
           /\ <<sw, i, l>> \in ret.processed
                 <=> FiniteInBlock(meta.sb[sw][i], l) >= 10
           /\ ( /\ FiniteInBlock(meta.sb[sw][i], l) >= 10
                /\ \A e, d \in Pixels :
                      /\ InBlock(meta.sb[sw][i], l, meta.pixel[l][e])
                      /\ InBlock(meta.sb[sw][i], l, meta.pixel[l][d])
                      /\ IsFinite(meta.noise[l][e])
                      /\ IsFinite(meta.noise[l][d])
                      => meta.noise[l][e] = meta.noise[l][d] )
              => /\ <<sw, i, l>> \notin ret.minimized
                 /\ \A e \in Pixels :
                       /\ InBlock(meta.sb[sw][i], l, meta.pixel[l][e])
                       /\ IsFinite(meta.noise[l][e])
                       => \E d \in Pixels :
                             /\ meta.pixel[l][d] = meta.pixel[l][e]
                             /\ ret.val[l][d] = meta.noise[l][d]
                             /\ ret.val[l][d] = meta.noise[l][e]

\* a call where one pair has exactly min_valid_size finite pixels in its
\* block and flat noise and is copied, and another pair of the same block
\* has one finite pixel fewer and is left out
C23_Witness ==
    /\ op.name = "get_shifted_noise_vectors"
    /\ \E sw \in 1 .. Len(meta.sb) : \E i \in 1 .. Len(meta.sb[sw]) :
       \E l, k \in Lines :
          /\ FiniteInBlock(meta.sb[sw][i], l) = 10
          /\ <<sw, i, l>> \in ret.processed \ ret.minimized
          /\ ret.val[l][0] = Fin(16)
          /\ InBlock(meta.sb[sw][i], k, 0)
          /\ FiniteInBlock(meta.sb[sw][i], k) = 9
          /\ <<sw, i, k>> \notin ret.processed
          /\ ret.val[k][0] = Fin(0)

\* element e of vector l is written by a qualifying (block, vector) pair:
\* its pixel lies in a block holding line l in which the vector has at
\* least min_valid_size finite elements, its noise is finite and no earlier
\* finite element of the vector has the same pixel
WrittenElement(l, e) ==
    /\ IsFinite(meta.noise[l][e])
    /\ \E sw \in 1 .. Len(meta.sb) : \E i \in 1 .. Len(meta.sb[sw]) :
          /\ InBlock(meta.sb[sw][i], l, meta.pixel[l][e])
          /\ FiniteInBlock(meta.sb[sw][i], l) >= 10
    /\ \A d \in 0 .. (e - 1) :
          meta.pixel[l][d] = meta.pixel[l][e] => ~IsFinite(meta.noise[l][d])

\* C27: every element of a noise vector that no qualifying (block, vector)
\* pair writes is output by get_shifted_noise_vectors as exactly 0, not as
\* the raw noise and not as NaN
C27_UnwrittenIsZero ==
    op.name = "get_shifted_noise_vectors" =>
        \A l \in Lines : \A e \in Pixels :
           ~WrittenElement(l, e) => ret.val[l][e] = Fin(0)

\* a call whose output holds a 0 for each of the four reasons: a NaN inside
\* a processed pair, a second element of the same pixel, an element of a
\* block with too few finite pixels and an element outside every block, next
\* to a written element
C27_Witness ==
    /\ op.name = "get_shifted_noise_vectors"
    /\ \E l, k \in Lines : \E sw \in 1 .. Len(meta.sb) :
       \E i, j \in 1 .. Len(meta.sb[sw]) :
          /\ <<1, 1, l>> \in ret.processed
          /\ WrittenElement(l, 0) /\ ret.val[l][0] = Fin(16)
          /\ meta.noise[l][3] = NaN /\ ret.val[l][3] = Fin(0)
          /\ meta.pixel[l][5] = meta.pixel[l][4]
          /\ meta.noise[l][5] = Fin(16) /\ ret.val[l][5] = Fin(0)
          /\ InBlock(meta.sb[sw][i], l, meta.pixel[l][11])
          /\ <<sw, i, l>> \notin ret.processed
          /\ meta.noise[l][11] = Fin(16) /\ ret.val[l][11] = Fin(0)
          /\ \A sx \in 1 .. Len(meta.sb) : \A ix \in 1 .. Len(meta.sb[sx]) :
                ~InBlock(meta.sb[sx][ix], k, meta.pixel[k][MaxPixel])
          /\ IsFinite(meta.noise[k][MaxPixel]) /\ meta.noise[k][MaxPixel] # Fin(0)
          /\ ret.val[k][MaxPixel] = Fin(0)

(***************************************************************************)
(* The total-gain path with coefficients that are not whole numbers.  A    *)
(* float of this path is a fraction [num, den] with den > 0, or NaN.       *)
(***************************************************************************)
\* the number of range(5) and range(1,6): the swaths the loops of
\* get_tg_scales_offsets, get_tg_vectors and get_noise_tg_vectors visit
TGSwaths == 5

\* the positions (from 1) of p['B'] that get_tg_scales_offsets reads, up to
\* and including the first one the list does not have
CoefficientReads(apg) ==
    { k \in 1 .. 2 * TGSwaths : \A h \in 1 .. (k - 1) : h <= Len(apg.B) }

\* the swath numbers j whose pg_swaths[f'{obsMode}{j}'] get_tg_vectors looks
\* up, up to and including the first one the product does not have
PgLookups(nSwaths) ==
    { j \in 1 .. TGSwaths : \A h \in 1 .. (j - 1) : h <= nSwaths }

\* offsets[j-1] + gtot * scales[j-1] as a fraction
TGValue(apg, j, g) ==
    [num |-> apg.B[2 * (j - 1) + 1] + g * apg.B[2 * (j - 1) + 2] * apg.A_SCALE,
     den |-> apg.Y_SCALE]

\* the assignment of a float to an element of np.zeros_like(pixel), an
\* integer array: the fraction is cut towards zero, NaN becomes nanCast
StoreInArray(v, nanCast) ==
    IF v = NaN THEN [num |-> nanCast, den |-> 1]
    ELSE [num |-> IF v.num >= 0 THEN v.num \div v.den
                  ELSE -((-v.num) \div v.den),
          den |-> 1]

\* get_noise_tg_vectors: exact is the value of the right-hand side of the
\* assignment, val what the returned array holds
NoiseTGVectors(obj, m, nanCast) ==
    IF m.params.apg.present = FALSE
    THEN [err |-> "KeyError: APG", calls |-> {<<"load_denoising_parameters_json">>}]
    ELSE IF \E k \in CoefficientReads(m.params.apg) : k > Len(m.params.apg.B)
    THEN [err |-> "IndexError: B",
          calls |-> { <<"B", k>> : k \in CoefficientReads(m.params.apg) }]
    ELSE IF \E j \in PgLookups(obj.nSwaths) : j > obj.nSwaths
    THEN [err |-> "KeyError: pg_swaths",
          calls |-> { <<"B", k>> : k \in CoefficientReads(m.params.apg) }
                    \cup { <<"pg_swaths", j>> : j \in PgLookups(obj.nSwaths) }]
    ELSE [err |-> "none",
          calls |-> { <<"B", k>> : k \in CoefficientReads(m.params.apg) }
                    \cup { <<"pg_swaths", j>> : j \in PgLookups(obj.nSwaths) },
          ids |-> get_swath_id_vectors(m.sb, m.order),
          exact |-> Array([l \in Lines |-> [p \in Pixels |->
              IF get_swath_id_vectors(m.sb, m.order)[l][p] = 0
                 \/ TGVector(get_swath_id_vectors(m.sb, m.order), m.gtot, l, p) = NaN
              THEN NaN
              ELSE TGValue(m.params.apg,
                           get_swath_id_vectors(m.sb, m.order)[l][p],
                           m.gtot[l][p])]]),
          val |-> Array([l \in Lines |-> [p \in Pixels |->
              IF get_swath_id_vectors(m.sb, m.order)[l][p] = 0
              THEN [num |-> 0, den |-> 1]
              ELSE IF TGVector(get_swath_id_vectors(m.sb, m.order), m.gtot, l, p) = NaN
              THEN StoreInArray(NaN, nanCast)
              ELSE StoreInArray(
                      TGValue(m.params.apg,
                              get_swath_id_vectors(m.sb, m.order)[l][p],
                              m.gtot[l][p]), nanCast)]])]

GetNoiseTGVectors(pol, nanCast) ==
    /\ op = NoOp /\ meta.kind = "product" /\ pol \in s1.pols
    /\ \E r \in {NoiseTGVectors(s1, meta, nanCast)} :
          /\ ret' = IF r.err = "none"
                    THEN [kind |-> "vectors", val |-> r.val, exact |-> r.exact,
                          ids |-> r.ids]
                    ELSE NoRet
          /\ err' = r.err
          /\ calls' = r.calls
    /\ op' = [name |-> "get_noise_tg_vectors", pol |-> pol]
    /\ UNCHANGED <<filename, fs, s1, printed, meta>>

\* the ..._APG_... entries of the table: whole and fractional coefficients,
\* pairs for five or for three swaths, or no entry
TGEntries ==
    { APGEntry, NoAPGEntry,
      [present |-> TRUE, B |-> <<1, 2, 2, 3, 3, 2, 4, 3, 5, 2>>,
       A_SCALE |-> 1, Y_SCALE |-> 2],
      [present |-> TRUE, B |-> <<-3, 1, 2, 1, -1, 2, 4, 1, 5, 1>>,
       A_SCALE |-> 3, Y_SCALE |-> 4],
      [present |-> TRUE, B |-> <<1, 2, 2, 3, 3, 2>>,
       A_SCALE |-> 1, Y_SCALE |-> 2] }

InitTG ==
    /\ filename \in PipeProducts
    /\ fs = [dir |-> {filename.platform}, file |-> {filename.platform}]
    /\ s1 = MakeObj(filename, filename.platform, 291)
    /\ err = "none"
    /\ printed = IPFMessages(s1.IPFversion)
    /\ \E sb \in Layouts(filename.modeType[1]), apg \in TGEntries,
          g \in 0 .. 2, h \in 1 .. 2 :
          meta = [kind |-> "product", sb |-> sb, order |-> Identity(Len(sb)),
                  gtot |-> [l \in Lines |-> [p \in Pixels |->
                               h + ((l + p + g) % 3)]],
                  params |-> [apg |-> apg]]
    /\ op = NoOp /\ ret = NoRet /\ calls = {}

NextTG ==
    \/ \E pol \in {"HH", "HV", "VH", "VV"}, nanCast \in NanCastOutcomes :
          GetNoiseTGVectors(pol, nanCast)

SpecTG == InitTG /\ [][NextTG]_vars

\* C24: get_noise_tg_vectors returns at every pixel of a noise vector inside
\* swath j exactly offset[j] + scale[j] * gtot, not rounded and not cut to
\* an integer
C24_ExactValue ==
    op.name = "get_noise_tg_vectors" /\ err = "none" =>
        \A l \in Lines : \A p \in Pixels :
           ret.ids[l][p] # 0 /\ ret.exact[l][p] # NaN =>
              ret.val[l][p].num * ret.exact[l][p].den
                 = ret.exact[l][p].num * ret.val[l][p].den

\* C26: the total-gain path visits exactly the swaths of the mode: for an IW
\* product it completes, never looks up a fourth or fifth swath and reads no
\* coefficient pair beyond the third
C26_VisitsSwathsOfMode ==
    op.name = "get_noise_tg_vectors" /\ meta.params.apg.present =>
        /\ err = "none"
        /\ \A j \in 1 .. 5 : <<"pg_swaths", j>> \in calls => j <= s1.nSwaths
        /\ \A k \in 1 .. 10 : <<"B", k>> \in calls => k <= 2 * s1.nSwaths

\* C25: every bivariate rectangular spline the pipeline builds, the
\* geolocation interpolator and the per-swath interpolator, has degree 1 in
\* both axes
C25_SplinesAreLinear ==
    op.name \in {"get_swath_interpolator", "geolocation_interpolator"} =>
        ret.val.kx = 1 /\ ret.val.ky = 1

\* C28: whatever the order of the swathMerge records, get_swath_id_vectors
\* gives every noise-vector pixel inside a block of swath number k the id k
\* and every pixel outside all blocks the id 0, and so agrees with
\* subswathIndexMap at every noise-vector (line, pixel)
C28_IdsAreSwathNumbers ==
    op.name = "get_swath_id_vectors" =>
        \A l \in Lines : \A p \in Pixels :
           /\ ret.val[l][p] = subswathIndexMap(meta.sb)[<<l, p>>]
           /\ \A k \in 1 .. Len(meta.sb) : \A i \in 1 .. Len(meta.sb[k]) :
                 InBlock(meta.sb[k][i], l, p) => ret.val[l][p] = k
           /\ (\A k \in 1 .. Len(meta.sb) : \A i \in 1 .. Len(meta.sb[k]) :
                 ~InBlock(meta.sb[k][i], l, p)) => ret.val[l][p] = 0

(***************************************************************************)
(* get_eap_interpolator.  meta.eap_lut is elevationAntennaPattern,         *)
(* meta.recordLength elevationAntennaPatternCount and meta.eai_lut         *)
(* elevationAngleIncrement of the subswath in the auxiliary calibration.   *)
(***************************************************************************)
MaxCount == 6

\* amplitudeLUT: 10**(eap_lut/10) of every entry when the pattern has
\* recordLength entries, else sqrt(re**2 + im**2) of eap_lut[0:-1:2] and
\* eap_lut[1::2]
AmplitudeLUT(eap_lut, recordLength) ==
    IF recordLength = Len(eap_lut)
    THEN [k \in 1 .. Len(eap_lut) |-> <<"10**", eap_lut[k]>>]
    ELSE [k \in 1 .. Cardinality({ i \in 0 .. (Len(eap_lut) - 2) : i % 2 = 0 }) |->
            <<"sqrt", eap_lut[2 * k - 1] * eap_lut[2 * k - 1]
                      + eap_lut[2 * k] * eap_lut[2 * k]>>]

\* np.arange(-(recordLength//2), +(recordLength//2)+1) * eai_lut
AngleLUT(recordLength, eai_lut) ==
    [k \in 1 .. (2 * (recordLength \div 2) + 1) |->
        (k - 1 - (recordLength \div 2)) * eai_lut]

\* InterpolatedUnivariateSpline(angleLUT, np.sqrt(amplitudeLUT)): a cubic
\* spline needs x and y of one length and more than three points
get_eap_interpolator(m) ==
    [calls |-> { <<"aux_calibration_params">>,
                 <<"InterpolatedUnivariateSpline",
                   Len(AngleLUT(m.recordLength, m.eai_lut)),
                   Len(AmplitudeLUT(m.eap_lut, m.recordLength))>> },
     err |-> IF Len(AngleLUT(m.recordLength, m.eai_lut))
                  # Len(AmplitudeLUT(m.eap_lut, m.recordLength))
             THEN "ValueError: x and y should have a same length"
             ELSE IF Len(AngleLUT(m.recordLength, m.eai_lut)) <= 3
             THEN "error: m > k must hold"
             ELSE "none",
     x |-> AngleLUT(m.recordLength, m.eai_lut),
     y |-> AmplitudeLUT(m.eap_lut, m.recordLength)]

GetEapInterpolator(subswathID, pol) ==
    /\ op = NoOp /\ meta.kind = "aux" /\ pol \in s1.pols
    /\ subswathID \in 1 .. s1.nSwaths
    /\ \E r \in {get_eap_interpolator(meta)} :
          /\ ret' = IF r.err = "none"
                    THEN [kind |-> "spline", x |-> r.x, y |-> r.y]
                    ELSE NoRet
          /\ err' = r.err
          /\ calls' = r.calls
    /\ op' = [name |-> "get_eap_interpolator", subswathID |-> subswathID,
              pol |-> pol]
    /\ UNCHANGED <<filename, fs, s1, printed, meta>>

InitEap ==
    /\ filename \in PipeProducts
    /\ fs = [dir |-> {filename.platform}, file |-> {filename.platform}]
    /\ s1 = MakeObj(filename, filename.platform, 291)
    /\ err = "none"
    /\ printed = IPFMessages(s1.IPFversion)
    /\ \E n \in 1 .. MaxCount, complex \in BOOLEAN, inc \in {1, 2} :
          meta = [kind |-> "aux", recordLength |-> n, eai_lut |-> inc,
                  eap_lut |-> [k \in 1 .. (IF complex THEN 2 * n ELSE n) |->
                                  (k * inc) % 4]]
    /\ op = NoOp /\ ret = NoRet /\ calls = {}

NextEap ==
    \/ \E subswathID \in 1 .. 5, pol \in {"HH", "HV", "VH", "VV"} :
          GetEapInterpolator(subswathID, pol)

SpecEap == InitEap /\ [][NextEap]_vars

\* C29: for every elevationAntennaPatternCount N >= 1, odd or even, in the
\* dB case and in the interleaved-complex case, the angle axis of
\* get_eap_interpolator has as many points as the amplitude table
C29_AngleAxisMatchesAmplitude ==
    op.name = "get_eap_interpolator" =>
        \A c \in calls :
           c[1] = "InterpolatedUnivariateSpline" => c[2] = c[3]

(***************************************************************************)
(* Later attempts to obtain the auxiliary calibration.  Whatever happened  *)
(* before, a product of a platform the server has an archive for is        *)
(* constructed again later with the network working and the archive        *)
(* holding its file.                                                       *)
(***************************************************************************)
SpecAuxRetry ==
    /\ InitAux /\ [][NextAux]_vars
    /\ \A pf \in {"S1A", "S1B"} :
          WF_vars(\E fn \in AuxFileNames :
                     fn.platform = pf /\ DownloadAuxCalibration(fn, "ok_with_file"))

\* C30: a failed attempt leaves nothing behind that blocks a later one: when
\* a run has created the archive directory and stopped before the aux-cal
\* file of the product was extracted, a later construction downloads and
\* extracts again and the file is eventually there
C30_InterruptedExtractionRecovers ==
    \A pf \in {"S1A", "S1B"} :
        (/\ op.name = "download_aux_calibration"
         /\ op.net = "extract_interrupted" /\ err = "OSError"
         /\ filename.platform = pf)
        ~> (pf \in fs.file)

====
